---- MODULE Spec2Model ----
(***************************************************************************)
(* stripeflare: pay-to-authenticate identity and balance ledger.           *)
(*                                                                         *)
(* The model follows src/middleware.ts (session resolution, charge, the    *)
(* Stripe webhook reconciler, token rotation) and the token codec of       *)
(* encrypt-decrypt-js (src/unnamed/part_000).  Every handler is a process  *)
(* that advances one store round trip (one client.exec) at a time; the     *)
(* statements a client mirrors to the aggregate shard are applied          *)
(* asynchronously.                                                         *)
(***************************************************************************)
EXTENDS Integers, Sequences, FiniteSets, TLC

(***************************************************************************)
(* Bounds of the model.                                                    *)
(***************************************************************************)
\* total number of requests (sessions, webhooks, rotations, chargeUser calls)
MaxOps == 3
\* number of store calls that may fail in one behaviour
MaxFailures == 2
\* number of charge() calls one session may make
MaxCharges == 1

NULL == "null"
DECODE_ERROR == "DecodeError"

\* credentials users hold from the start; all have the UUID format
UserTokens == {"T1", "T2"}
\* the values crypto.randomUUID() returns, in order
FreshTokens == <<"U1", "U2", "U3", "U4", "U5">>
AllTokens == UserTokens \cup {FreshTokens[i] : i \in 1..Len(FreshTokens)}
\* a credential that does not have the UUID format
MalformedTokens == {"letmein"}
\* the values env.DB_SECRET takes: the one deployed first, and a later one
Secrets == {"S1", "S2"}
DB_SECRET == "S1"
Amounts == {1, 2}
Emails == {"E1", "E2"}
Fingerprints == {"F1", "F2"}

(***************************************************************************)
(* Token codec (encrypt-decrypt-js).  AES-GCM is modelled symbolically: a  *)
(* ciphertext is the text sealed under the derived key, opened only with   *)
(* the same key and the IV it was sealed with.                             *)
(***************************************************************************)
IV_LENGTH == 12

deriveKey(secret) == "k" \o secret

digest(data) == "#" \o data \o "0123456789abcdef"

\* an IV of eight bytes
generateIVShort(accessToken) == SubSeq(digest(accessToken), 1, 8)

\* 31-37
generateIV(accessToken) == SubSeq(digest(accessToken), 1, IV_LENGTH)

\* crypto.subtle.encrypt: ciphertext and tag under (key, iv)
seal(key, iv, plain) == key \o plain

\* crypto.subtle.decrypt: the plaintext, or DECODE_ERROR when the tag does
\* not verify under (key, iv)
open(key, iv, encrypted) ==
    IF Len(encrypted) >= Len(key) /\ SubSeq(encrypted, 1, Len(key)) = key
    THEN LET plain == SubSeq(encrypted, Len(key) + 1, Len(encrypted))
         IN IF generateIV(plain) = iv THEN plain ELSE DECODE_ERROR
    ELSE DECODE_ERROR

encryptToken(token, secret) ==
    LET key == deriveKey(secret)
        iv == generateIV(token)
    IN iv \o seal(key, iv, token)

decryptToken(cipherText, secret) ==
    IF Len(cipherText) < IV_LENGTH THEN DECODE_ERROR
    ELSE LET key == deriveKey(secret)
             iv == SubSeq(cipherText, 1, IV_LENGTH)
             encrypted == SubSeq(cipherText, IV_LENGTH + 1, Len(cipherText))
         IN open(key, iv, encrypted)

getClientReferenceId(access_token, secret) == encryptToken(access_token, secret)

\* an IV drawn anew for every call
IVChoicesRandom(accessToken) == {generateIV(accessToken), generateIV("nonce")}

\* 31-37, 74: the IVs one call of encryptToken can use for the token: the
\* digest fixes it
IVChoices(accessToken) == {generateIV(accessToken)}

\* 72-90: the texts a call of encryptToken can return
Encryptions(token, secret) ==
    {iv \o seal(deriveKey(secret), iv, token) : iv \in IVChoices(token)}

(***************************************************************************)
(* The transport encoding of the codec (part_000 39-63), on buffers of     *)
(* bytes.                                                                  *)
(***************************************************************************)
BASE64 == "ABCDEFGHIJKLMNOPQRSTUVWXYZabcdefghijklmnopqrstuvwxyz0123456789+/"

CharAt(text, i) == SubSeq(text, i, i)

\* the base64 digit of a 6-bit value, and the value of a digit
Digit(n) == CharAt(BASE64, n + 1)
IsDigit(c) == \E i \in 1..64 : CharAt(BASE64, i) = c
ValueOf(c) == (CHOOSE i \in 1..64 : CharAt(BASE64, i) = c) - 1

RECURSIVE btoa(_)
\* 46: btoa(binary), three bytes to four digits, padded with "="
btoa(bytes) ==
    CASE Len(bytes) = 0 -> ""
      [] Len(bytes) = 1 ->
            Digit(bytes[1] \div 4) \o Digit((bytes[1] % 4) * 16) \o "=="
      [] Len(bytes) = 2 ->
            Digit(bytes[1] \div 4)
               \o Digit((bytes[1] % 4) * 16 + bytes[2] \div 16)
               \o Digit((bytes[2] % 16) * 4) \o "="
      [] OTHER ->
            Digit(bytes[1] \div 4)
               \o Digit((bytes[1] % 4) * 16 + bytes[2] \div 16)
               \o Digit((bytes[2] % 16) * 4 + bytes[3] \div 64)
               \o Digit(bytes[3] % 64)
               \o btoa(SubSeq(bytes, 4, Len(bytes)))

RECURSIVE replace(_, _, _)
\* text.replace(/from/g, to), for a pattern of one character
replace(text, from, to) ==
    IF text = "" THEN ""
    ELSE (IF CharAt(text, 1) = from THEN to ELSE CharAt(text, 1))
            \o replace(SubSeq(text, 2, Len(text)), from, to)

RECURSIVE padEnd(_, _, _)
padEnd(text, targetLength, fill) ==
    IF Len(text) >= targetLength THEN text
    ELSE padEnd(text \o fill, targetLength, fill)

\* 40-47
arrayBufferToBase64Url(buffer) ==
    replace(replace(replace(btoa(buffer), "+", "-"), "/", "_"), "=", "")

RECURSIVE FromDigits(_)
\* the bytes of a run of base64 digits; the bits left over are dropped
FromDigits(text) ==
    CASE Len(text) < 2 -> <<>>
      [] Len(text) = 2 ->
            <<ValueOf(CharAt(text, 1)) * 4 + ValueOf(CharAt(text, 2)) \div 16>>
      [] Len(text) = 3 ->
            <<ValueOf(CharAt(text, 1)) * 4 + ValueOf(CharAt(text, 2)) \div 16,
              (ValueOf(CharAt(text, 2)) % 16) * 16 + ValueOf(CharAt(text, 3)) \div 4>>
      [] OTHER ->
            <<ValueOf(CharAt(text, 1)) * 4 + ValueOf(CharAt(text, 2)) \div 16,
              (ValueOf(CharAt(text, 2)) % 16) * 16 + ValueOf(CharAt(text, 3)) \div 4,
              (ValueOf(CharAt(text, 3)) % 4) * 64 + ValueOf(CharAt(text, 4))>>
               \o FromDigits(SubSeq(text, 5, Len(text)))

\* the text without its padding: up to two "=" at the end of a text whose
\* length is a multiple of four
Unpadded(text) ==
    IF Len(text) % 4 # 0 \/ Len(text) = 0 THEN text
    ELSE IF SubSeq(text, Len(text) - 1, Len(text)) = "=="
    THEN SubSeq(text, 1, Len(text) - 2)
    ELSE IF CharAt(text, Len(text)) = "="
    THEN SubSeq(text, 1, Len(text) - 1)
    ELSE text

\* 57: atob(base64) throws on a text that is not base64
atobThrows(base64) ==
    LET digits == Unpadded(base64)
    IN \/ Len(digits) % 4 = 1
       \/ \E i \in 1..Len(digits) : ~IsDigit(CharAt(digits, i))

atob(base64) == FromDigits(Unpadded(base64))

\* 52-55: base64url back to base64
toBase64(base64url) ==
    padEnd(replace(replace(base64url, "-", "+"), "_", "/"),
           Len(base64url) + ((4 - (Len(base64url) % 4)) % 4), "=")

\* 50-63, and whether it throws
base64UrlToArrayBuffer(base64url) == atob(toBase64(base64url))
base64UrlThrows(base64url) == atobThrows(toBase64(base64url))

DO_PREFIX == "user-"
AGGREGATE_NAME == "admin-readonly"
VERSION == "1"

getDOName(client_reference_id) == DO_PREFIX \o client_reference_id

\* the name createClient addresses: `${version}-${doName}`
ShardOf(client_reference_id) == VERSION \o "-" \o getDOName(client_reference_id)

\* /^[0-9a-f]{8}-...$/i : every token of the model has the UUID format
uuidGeneralRegex(t) == t \in AllTokens

PublicIds == {encryptToken(t, s) : t \in AllTokens \cup MalformedTokens, s \in Secrets}
ShardNames == {ShardOf(c) : c \in PublicIds}

(***************************************************************************)
(* The users table (migration 1) and the statements the handlers issue.    *)
(***************************************************************************)
DefaultRow(t) ==
    [access_token |-> t, balance |-> 0, name |-> NULL, email |-> NULL,
     verified_email |-> NULL, verified_user_access_token |-> NULL,
     card_fingerprint |-> NULL, client_reference_id |-> NULL]

\* a JavaScript null or undefined where an object is expected
NoRow == [null |-> TRUE]

Has(table, t) == \E r \in table : r.access_token = t
RowOf(table, t) == CHOOSE r \in table : r.access_token = t

\* SELECT * FROM users WHERE access_token = ?  (.one, null when no row)
SelectByToken(table, t) == IF Has(table, t) THEN RowOf(table, t) ELSE NoRow

\* the rows a SELECT ... WHERE col = val may return as .one
SelectByEmail(table, e) == {r \in table : r.verified_email = e}
SelectByFingerprint(table, f) == {r \in table : r.card_fingerprint = f}

StmtInsert(row) == [op |-> "insert", row |-> row]
StmtCredit(t, amt, email, name) ==
    [op |-> "credit", tok |-> t, amt |-> amt, email |-> email, name |-> name]
StmtCharge(t, amt, allowNegative) ==
    [op |-> "charge", tok |-> t, amt |-> amt, allowNegative |-> allowNegative]
StmtDelete(t) == [op |-> "delete", tok |-> t]
\* a write-back that removes the row
StmtSetCridDeleting(t, crid) == [op |-> "delete", tok |-> t]
\* UPDATE users SET client_reference_id = ? WHERE access_token = ?
StmtSetCrid(t, crid) == [op |-> "setcrid", tok |-> t, crid |-> crid]

\* whether the statement throws on the table (PRIMARY KEY conflict)
Throws(table, s) == s.op = "insert" /\ Has(table, s.row.access_token)

\* the rows the statement writes
Matches(table, s) ==
    CASE s.op = "insert" -> {}
      [] s.op = "charge" ->
            {r \in table : r.access_token = s.tok
                           /\ (s.allowNegative \/ r.balance >= s.amt)}
      [] OTHER -> {r \in table : r.access_token = s.tok}

rowsWritten(table, s) ==
    IF s.op = "insert" THEN 1 ELSE Cardinality(Matches(table, s))

Rewrite(r, s) ==
    CASE s.op = "credit" ->
            [r EXCEPT !.balance = @ + s.amt, !.email = s.email, !.name = s.name]
      [] s.op = "charge" -> [r EXCEPT !.balance = @ - s.amt]
      [] s.op = "setcrid" -> [r EXCEPT !.client_reference_id = s.crid]
      [] OTHER -> r

\* the table after the statement
Apply(table, s) ==
    CASE s.op = "insert" -> IF Throws(table, s) THEN table ELSE table \cup {s.row}
      [] s.op = "delete" -> table \ Matches(table, s)
      [] OTHER -> (table \ Matches(table, s))
                     \cup {Rewrite(r, s) : r \in Matches(table, s)}

(***************************************************************************)
(* State.                                                                  *)
(***************************************************************************)
VARIABLES
    secret,     \* env.DB_SECRET
    shards,     \* the users table of every user shard, by shard name
    aggregate,  \* the users table of the aggregate shard
    mirror,     \* statements issued to the aggregate shard and not yet applied
    procs,      \* the requests in flight: position and locals of each
    nOps,       \* requests started
    faults,     \* store calls that may still fail
    nMinted     \* values crypto.randomUUID() has returned

vars == <<secret, shards, aggregate, mirror, procs, nOps, faults, nMinted>>

\* number of requests that may be in flight together
NProcs == 2
Procs == 1..NProcs

Idle ==
    [pc |-> "idle", op |-> NULL, rid |-> 0, cred |-> NULL, accessToken |-> NULL,
     user |-> NoRow, client |-> NULL, cookie |-> NULL, ev |-> NoRow,
     token |-> NULL, alt |-> NULL, result |-> NULL, charges |-> <<>>,
     log |-> <<>>, snap |-> NoRow]

\* no row yet, no request running
Empty(f) ==
    /\ secret = DB_SECRET
    /\ shards = [n \in ShardNames |-> {}]
    /\ aggregate = {}
    /\ mirror = <<>>
    /\ procs = [p \in Procs |-> Idle]
    /\ nOps = 0
    /\ faults = f
    /\ nMinted = 0

\* crypto.randomUUID(): the k-th value drawn in this step
randomUUID(k) == FreshTokens[nMinted + k]
CanMint(k) == nMinted + k <= Len(FreshTokens)

\* the credentials a request can present: the users' own and every one issued
Credentials == UserTokens \cup {FreshTokens[i] : i \in 1..nMinted}

(***************************************************************************)
(* The store: one statement on a client's own shard, mirrored to the       *)
(* aggregate shard in the background.                                      *)
(***************************************************************************)
\* how a store call can end: applied and answered; not applied and thrown;
\* applied, the answer lost and thrown
WriteModes == IF faults > 0 THEN {"ok", "lost", "after"} ELSE {"ok"}
ReadModes == IF faults > 0 THEN {"ok", "lost"} ELSE {"ok"}

\* whether client.exec(s) on shard c throws
ExecThrows(c, s, mode) == mode # "ok" \/ Throws(shards[c], s)

\* whether the mirror statement is issued: always when the call succeeds
MirrorChoices(c, s, mode) ==
    IF ExecThrows(c, s, mode) THEN {TRUE, FALSE} ELSE {TRUE}

\* client.exec(s) of request rid, client configs [c, aggregate]
Exec(rid, c, s, mode, mir) ==
    /\ shards' = IF mode \in {"ok", "after"}
                 THEN [shards EXCEPT ![c] = Apply(@, s)]
                 ELSE shards
    /\ mirror' = IF mir
                 THEN Append(mirror, [rid |-> rid, client |-> c, stmt |-> s])
                 ELSE mirror
    /\ faults' = IF mode = "ok" THEN faults ELSE faults - 1

\* a SELECT
Read(mode) ==
    /\ faults' = IF mode = "ok" THEN faults ELSE faults - 1
    /\ UNCHANGED <<shards, mirror>>

\* the statements of one client reach the aggregate shard in issue order;
\* those of different clients in any order
Deliverable(i) ==
    /\ i \in 1..Len(mirror)
    /\ \A j \in 1..(i - 1) :
          ~(mirror[j].rid = mirror[i].rid /\ mirror[j].client = mirror[i].client)

Without(q, i) == SubSeq(q, 1, i - 1) \o SubSeq(q, i + 1, Len(q))

\* the aggregate shard executes a mirrored statement (a throw is only logged)
MirrorApply(i) ==
    /\ Deliverable(i)
    /\ aggregate' = Apply(aggregate, mirror[i].stmt)
    /\ mirror' = Without(mirror, i)
    /\ UNCHANGED <<secret, shards, procs, nOps, faults, nMinted>>

(***************************************************************************)
(* handleUserSession (middleware.ts 660-789).                              *)
(***************************************************************************)
\* a request may start where no request is running
Free(p) == procs[p].pc \in {"idle", "session", "done"}

Snapshot == [shards |-> shards, aggregate |-> aggregate, quiet |-> mirror = <<>>]

NewRequest(op, cred) ==
    [Idle EXCEPT !.op = op, !.rid = nOps + 1, !.cred = cred, !.snap = Snapshot]

\* 771-776: the user object built without a row
Unpersisted(accessToken) ==
    [DefaultRow(accessToken) EXCEPT
        !.client_reference_id = encryptToken(accessToken, secret)]

\* a fallback that draws a new credential whenever no row was found
FallbackMintsAlways(user, accessToken) == user = NoRow

\* 766: whether the fallback draws a new credential
FallbackMints(user, accessToken) ==
    user = NoRow /\ (accessToken = NULL \/ ~uuidGeneralRegex(accessToken))

\* 573: the rotation's guard on the session it resolved
NotAuthenticated(client, user) == client = NULL \/ user.access_token = NULL

\* a cookie only for a user that has funds
SetCookieFunded(user) == IF user.balance > 0 THEN user.access_token ELSE NULL

\* 779-788: the Set-Cookie header carries the returned user's access_token
SetCookie(user) == user.access_token

\* 761-788, and the caller's first lines: rotation draws the new credential
\* (573-586), a session hands user, client and charge to the handler
SessionReturn(p, pr, user0, client, accessToken0) ==
    LET mints == FallbackMints(user0, accessToken0)
        accessToken == IF mints THEN randomUUID(1) ELSE accessToken0
        user == IF user0 = NoRow THEN Unpersisted(accessToken) ELSE user0
        k == IF mints THEN 1 ELSE 0
        got == [pr EXCEPT !.user = user, !.client = client,
                          !.accessToken = accessToken]
    IN IF pr.op = "rotate"
       THEN IF NotAuthenticated(client, user)
            THEN /\ procs' = [procs EXCEPT ![p] =
                        [got EXCEPT !.pc = "done", !.result = "401 Not authenticated"]]
                 /\ nMinted' = nMinted + k
            ELSE /\ procs' = [procs EXCEPT ![p] =
                        [got EXCEPT !.pc = "rot_copy", !.token = randomUUID(k + 1)]]
                 /\ nMinted' = nMinted + k + 1
       ELSE /\ procs' = [procs EXCEPT ![p] =
                   [got EXCEPT !.pc = "session", !.cookie = SetCookie(user)]]
            /\ nMinted' = nMinted + k

\* a resolver that follows the pointer of the row a pointer led to
AfterLookupFollowing(p, pr, user, client, accessToken) ==
    IF user # NoRow /\ user.verified_user_access_token # NULL
    THEN /\ procs' = [procs EXCEPT ![p] =
                [pr EXCEPT !.pc = "sess_redirect",
                           !.accessToken = user.verified_user_access_token,
                           !.user = user,
                           !.client = ShardOf(getClientReferenceId(
                                         user.verified_user_access_token, secret))]]
         /\ UNCHANGED nMinted
    ELSE SessionReturn(p, pr, user, client, accessToken)

\* 737-753: the stored public identifier is compared with the current one
AfterLookup(p, pr, user, client, accessToken) ==
    IF user # NoRow
       /\ user.client_reference_id # encryptToken(accessToken, secret)
    THEN /\ procs' = [procs EXCEPT ![p] =
                [pr EXCEPT !.pc = "sess_writeback", !.client = client,
                           !.accessToken = accessToken,
                           !.user = [user EXCEPT !.client_reference_id =
                                        encryptToken(accessToken, secret)]]]
         /\ UNCHANGED nMinted
    ELSE SessionReturn(p, pr, user, client, accessToken)

\* a redirect that stays on the presented credential's shard
RedirectClientOwnShard(cred, user) == ShardOf(getClientReferenceId(cred, secret))

\* 712-728: the client of a superseded credential is the pointer's shard
RedirectClient(cred, user) ==
    ShardOf(getClientReferenceId(user.verified_user_access_token, secret))

\* 672-710: the credential is read and its shard looked up
SessionLookup(p, op, cred) ==
    /\ Free(p)
    /\ nOps < MaxOps
    /\ CanMint(2)
    /\ nOps' = nOps + 1
    /\ UNCHANGED <<secret, aggregate>>
    /\ LET pr == NewRequest(op, cred)
       IN IF cred = NULL
          THEN /\ SessionReturn(p, pr, NoRow, NULL, NULL)
               /\ UNCHANGED <<shards, mirror, faults>>
          ELSE \E mode \in ReadModes :
                /\ Read(mode)
                /\ LET client == ShardOf(getClientReferenceId(cred, secret))
                       user == SelectByToken(shards[client], cred)
                   IN IF mode # "ok"
                      THEN SessionReturn(p, pr, NoRow, NULL, cred)
                      ELSE IF user # NoRow /\ user.verified_user_access_token # NULL
                      THEN /\ procs' = [procs EXCEPT ![p] =
                                  [pr EXCEPT
                                     !.pc = "sess_redirect",
                                     !.accessToken = user.verified_user_access_token,
                                     !.user = user,
                                     !.client = RedirectClient(cred, user)]]
                           /\ UNCHANGED nMinted
                      ELSE AfterLookup(p, pr, user, client, cred)

\* 710-735: the forwarding pointer is followed, once
SessionRedirect(p) ==
    /\ procs[p].pc = "sess_redirect"
    /\ UNCHANGED <<secret, aggregate, nOps>>
    /\ \E mode \in ReadModes :
        /\ Read(mode)
        /\ LET pr == procs[p]
               user == SelectByToken(shards[pr.client], pr.accessToken)
           IN IF mode # "ok"
              THEN SessionReturn(p, pr, NoRow, NULL, pr.accessToken)
              ELSE AfterLookup(p, pr, user, pr.client, pr.accessToken)

\* a write-back whose failure escapes the resolver
SessionWritebackUncaught(p) ==
    /\ procs[p].pc = "sess_writeback"
    /\ UNCHANGED <<secret, aggregate, nOps>>
    /\ LET pr == procs[p]
           s == StmtSetCrid(pr.accessToken, pr.user.client_reference_id)
       IN \E mode \in WriteModes : \E mir \in MirrorChoices(pr.client, s, mode) :
            /\ Exec(pr.rid, pr.client, s, mode, mir)
            /\ IF ExecThrows(pr.client, s, mode)
               THEN /\ procs' = [procs EXCEPT ![p] =
                           [pr EXCEPT !.pc = "done", !.result = "exception"]]
                    /\ UNCHANGED nMinted
               ELSE SessionReturn(p, pr, pr.user, pr.client, pr.accessToken)

\* 743-752: the corrected client_reference_id is written back
SessionWriteback(p) ==
    /\ procs[p].pc = "sess_writeback"
    /\ UNCHANGED <<secret, aggregate, nOps>>
    /\ LET pr == procs[p]
           s == StmtSetCrid(pr.accessToken, pr.user.client_reference_id)
       IN \E mode \in WriteModes : \E mir \in MirrorChoices(pr.client, s, mode) :
            /\ Exec(pr.rid, pr.client, s, mode, mir)
            /\ IF ExecThrows(pr.client, s, mode)
               THEN SessionReturn(p, pr, NoRow, NULL, pr.accessToken)
               ELSE SessionReturn(p, pr, pr.user, pr.client, pr.accessToken)

(***************************************************************************)
(* charge (middleware.ts 267-293) and chargeUser (911-958).                *)
(***************************************************************************)
NotSignedUp == [charged |-> FALSE, message |-> "User is not signed up yet and cannot be charged"]
TooLow == [charged |-> FALSE, message |-> "User balance too low"]
Charged == [charged |-> TRUE, message |-> "Successfully charged"]

\* a charge whose statement never tests the balance
ChargeStmtUnconditional(access_token, amountCent, allowNegativeBalance) ==
    StmtCharge(access_token, amountCent, TRUE)

\* 275-286, 941-952: the statement of a charge
ChargeStmt(access_token, amountCent, allowNegativeBalance) ==
    StmtCharge(access_token, amountCent, allowNegativeBalance)

\* an answer that never looks at the rows written
ChargeAnswerAlways(written) == Charged

\* 288-292, 954-957: the answer, from the rows the statement wrote
ChargeAnswer(written) == IF written = 0 THEN TooLow ELSE Charged

ChargeRecord(amountCent, allowNegativeBalance, answer) ==
    [amt |-> amountCent, allowNegative |-> allowNegativeBalance,
     charged |-> answer.charged, message |-> answer.message]

\* the charge closure handed to the handler of a resolved session
charge(p, amountCent, allowNegativeBalance) ==
    /\ procs[p].pc = "session"
    /\ Len(procs[p].charges) < MaxCharges
    /\ UNCHANGED <<secret, aggregate, nOps, nMinted>>
    /\ LET pr == procs[p]
           s == ChargeStmt(pr.user.access_token, amountCent, allowNegativeBalance)
       IN IF pr.client = NULL \/ pr.user.access_token = NULL
          THEN /\ procs' = [procs EXCEPT ![p].charges =
                      Append(@, ChargeRecord(amountCent, allowNegativeBalance,
                                             NotSignedUp))]
               /\ UNCHANGED <<shards, mirror, faults>>
          ELSE \E mode \in WriteModes : \E mir \in MirrorChoices(pr.client, s, mode) :
                /\ Exec(pr.rid, pr.client, s, mode, mir)
                /\ IF ExecThrows(pr.client, s, mode)
                   THEN procs' = [procs EXCEPT ![p].pc = "done",
                                               ![p].result = "exception"]
                   ELSE procs' = [procs EXCEPT ![p].charges =
                          Append(@, ChargeRecord(amountCent, allowNegativeBalance,
                             ChargeAnswer(rowsWritten(shards[pr.client], s))))]

\* chargeUser(env, ctx, user_access_token, version, amountCent, allowNegativeBalance)
chargeUser(p, user_access_token, amountCent, allowNegativeBalance) ==
    /\ Free(p)
    /\ nOps < MaxOps
    /\ nOps' = nOps + 1
    /\ UNCHANGED <<secret, aggregate, nMinted>>
    /\ LET pr == [NewRequest("chargeUser", user_access_token) EXCEPT
                     !.client = ShardOf(getClientReferenceId(user_access_token, secret))]
           s == ChargeStmt(user_access_token, amountCent, allowNegativeBalance)
       IN \E mode \in WriteModes : \E mir \in MirrorChoices(pr.client, s, mode) :
            /\ Exec(pr.rid, pr.client, s, mode, mir)
            /\ IF ExecThrows(pr.client, s, mode)
               THEN procs' = [procs EXCEPT ![p] =
                        [pr EXCEPT !.pc = "done", !.result = "exception"]]
               ELSE procs' = [procs EXCEPT ![p] =
                        [pr EXCEPT !.pc = "done",
                           !.charges = <<ChargeRecord(amountCent, allowNegativeBalance,
                              ChargeAnswer(rowsWritten(shards[pr.client], s)))>>]]

(***************************************************************************)
(* handleTokenRotation (middleware.ts 554-658).                            *)
(***************************************************************************)
\* a copy that carries the forwarding pointer and the old public identifier
RotatedRowVerbatim(user, newAccessToken) == [user EXCEPT !.access_token = newAccessToken]

\* 600-613: the row copied to the new credential
RotatedRow(user, newAccessToken) ==
    [access_token |-> newAccessToken, balance |-> user.balance,
     email |-> user.email, verified_email |-> user.verified_email,
     card_fingerprint |-> user.card_fingerprint, name |-> user.name,
     client_reference_id |-> encryptToken(newAccessToken, secret),
     verified_user_access_token |-> NULL]

\* a copy written through the client of the session
newUserClientOfSession(pr) == pr.client

\* 581-596: the client of the new credential's shard
newUserClient(pr) == ShardOf(encryptToken(pr.token, secret))

\* a cleanup that deletes the old credential's row from the new shard
CleanupStmtOldToken(pr) == StmtDelete(pr.user.access_token)

\* 600-613, 616-619, 645-648: the three statements of a rotation
CopyStmt(pr) == StmtInsert(RotatedRow(pr.user, pr.token))
DeleteStmt(pr) == StmtDelete(pr.user.access_token)
CleanupStmt(pr) == StmtDelete(pr.token)

\* how a store call of the request ended: "ok", "lost", "after", or "threw"
\* when the statement itself failed
Outcome(c, s, mode) ==
    IF mode = "ok" /\ Throws(shards[c], s) THEN "threw" ELSE mode

Logged(pr, c, s, mode) == [pr EXCEPT !.log = Append(@, Outcome(c, s, mode))]

\* 598-613: copy
RotateCopy(p) ==
    /\ procs[p].pc = "rot_copy"
    /\ UNCHANGED <<secret, aggregate, nOps, nMinted>>
    /\ LET pr == procs[p]
           c == newUserClient(pr)
           s == CopyStmt(pr)
       IN \E mode \in WriteModes : \E mir \in MirrorChoices(c, s, mode) :
            /\ Exec(pr.rid, c, s, mode, mir)
            /\ procs' = [procs EXCEPT ![p] =
                  [Logged(pr, c, s, mode) EXCEPT !.pc =
                     IF ExecThrows(c, s, mode) THEN "rot_cleanup" ELSE "rot_delete"]]

\* a delete whose failure escapes the handler's catch: no cleanup follows
RotateDeleteUncaught(p) ==
    /\ procs[p].pc = "rot_delete"
    /\ UNCHANGED <<secret, aggregate, nOps, nMinted>>
    /\ LET pr == procs[p]
           s == StmtDelete(pr.user.access_token)
       IN \E mode \in WriteModes : \E mir \in MirrorChoices(pr.client, s, mode) :
            /\ Exec(pr.rid, pr.client, s, mode, mir)
            /\ procs' = [procs EXCEPT ![p] =
                  IF ExecThrows(pr.client, s, mode)
                  THEN [Logged(pr, pr.client, s, mode) EXCEPT
                           !.pc = "done", !.result = "500 Failed to rotate token"]
                  ELSE [Logged(pr, pr.client, s, mode) EXCEPT
                           !.pc = "done", !.cookie = pr.token,
                           !.result = "200 Token rotated successfully"]]

\* 615-641: delete the old row, answer with the new cookie
RotateDelete(p) ==
    /\ procs[p].pc = "rot_delete"
    /\ UNCHANGED <<secret, aggregate, nOps, nMinted>>
    /\ LET pr == procs[p]
           s == DeleteStmt(pr)
       IN \E mode \in WriteModes : \E mir \in MirrorChoices(pr.client, s, mode) :
            /\ Exec(pr.rid, pr.client, s, mode, mir)
            /\ procs' = [procs EXCEPT ![p] =
                  IF ExecThrows(pr.client, s, mode)
                  THEN [Logged(pr, pr.client, s, mode) EXCEPT !.pc = "rot_cleanup"]
                  ELSE [Logged(pr, pr.client, s, mode) EXCEPT
                           !.pc = "done", !.cookie = pr.token,
                           !.result = "200 Token rotated successfully"]]

\* 642-656: on any error the new row is deleted and the rotation fails
RotateCleanup(p) ==
    /\ procs[p].pc = "rot_cleanup"
    /\ UNCHANGED <<secret, aggregate, nOps, nMinted>>
    /\ LET pr == procs[p]
           c == newUserClient(pr)
           s == CleanupStmt(pr)
       IN \E mode \in WriteModes : \E mir \in MirrorChoices(c, s, mode) :
            /\ Exec(pr.rid, c, s, mode, mir)
            /\ procs' = [procs EXCEPT ![p] =
                  [Logged(pr, c, s, mode) EXCEPT
                     !.pc = "done", !.result = "500 Failed to rotate token"]]

(***************************************************************************)
(* handleStripeWebhook (middleware.ts 306-547), for a verified             *)
(* checkout.session.completed event.  type and fingerprint are those of    *)
(* the charge's payment_method_details.                                    *)
(***************************************************************************)
Instruments ==
    {[type |-> "card", fingerprint |-> f] : f \in Fingerprints}
        \cup {[type |-> "link", fingerprint |-> NULL],
              [type |-> "link", fingerprint |-> "F1"]}

\* customer_details of the two payers of the model
Payers == {[email |-> "E1", name |-> "N1"], [email |-> "E2", name |-> NULL]}

Event(status, amount, crid, payer, instrument) ==
    [payment_status |-> status, amount_total |-> amount,
     client_reference_id |-> crid, email |-> payer.email, name |-> payer.name,
     type |-> instrument.type, fingerprint |-> instrument.fingerprint]

\* the events addressed to a credential under the current secret
PaidEvents ==
    {Event("paid", a, encryptToken(t, secret), c, i) :
        a \in Amounts, t \in Credentials, c \in Payers, i \in Instruments}

SomePaid ==
    Event("paid", 1, encryptToken("T1", secret),
          [email |-> "E1", name |-> "N1"], [type |-> "card", fingerprint |-> "F1"])

\* events that fail a precondition, one of each kind
BadEvents ==
    {[SomePaid EXCEPT !.payment_status = "unpaid"],
     [SomePaid EXCEPT !.amount_total = 0],
     [SomePaid EXCEPT !.client_reference_id = NULL],
     [SomePaid EXCEPT !.email = NULL],
     [SomePaid EXCEPT !.client_reference_id = "forged"],
     [SomePaid EXCEPT !.client_reference_id = encryptToken("T1", "S0")]}

Events == PaidEvents \cup BadEvents

\* an email taken as verified whatever the payment method
verified_emailAnyChannel(ev) == ev.email

\* 436-441
card_fingerprint(ev) == ev.fingerprint
verified_email(ev) == IF ev.type = "link" THEN ev.email ELSE NULL

\* a reconciler that does not try to decrypt before it looks the token up
RejectionUndecoded(ev) ==
    CASE ev.payment_status # "paid" \/ ev.amount_total = 0 ->
            "400 Payment not completed"
      [] ev.client_reference_id = NULL -> "400 Missing client_reference_id"
      [] ev.email = NULL -> "400 Missing customer_details.email"
      [] OTHER -> NULL

\* a reconciler that accepts an event whatever its payment status
RejectionUnpaid(ev) ==
    CASE ev.amount_total = 0 -> "400 Payment not completed"
      [] ev.client_reference_id = NULL -> "400 Missing client_reference_id"
      [] ev.email = NULL -> "400 Missing customer_details.email"
      [] decryptToken(ev.client_reference_id, secret) = DECODE_ERROR ->
            "200 Could not decrypt client_reference_id"
      [] OTHER -> NULL

\* 350-386: the answer that rejects the event, NULL when it is accepted
Rejection(ev) ==
    CASE ev.payment_status # "paid" \/ ev.amount_total = 0 ->
            "400 Payment not completed"
      [] ev.client_reference_id = NULL -> "400 Missing client_reference_id"
      [] ev.email = NULL -> "400 Missing customer_details.email"
      [] secret = NULL -> "400 Missing DB_SECRET"
      [] decryptToken(ev.client_reference_id, secret) = DECODE_ERROR ->
            "200 Could not decrypt client_reference_id"
      [] OTHER -> NULL

Finish(p, pr, result) ==
    procs' = [procs EXCEPT ![p] = [pr EXCEPT !.pc = "done", !.result = result]]

\* a reconciler without the check of the match against the event's token
DecideUnchecked(p, pr, alt) ==
    IF alt = NULL
    THEN procs' = [procs EXCEPT ![p] = [pr EXCEPT !.pc = "wh_insert_new"]]
    ELSE procs' = [procs EXCEPT ![p] =
            [pr EXCEPT !.pc = "wh_insert_stub", !.alt = alt]]

\* 462-498: the branch taken once both searches are done
Decide(p, pr, alt) ==
    IF alt = NULL
    THEN procs' = [procs EXCEPT ![p] = [pr EXCEPT !.pc = "wh_insert_new"]]
    ELSE IF alt = pr.token
    THEN Finish(p, pr, "500 Data might be corrupt")
    ELSE procs' = [procs EXCEPT ![p] =
            [pr EXCEPT !.pc = "wh_insert_stub", !.alt = alt]]

\* 443-460: the searches still to run, after the lookup by access_token
AfterTokenLookup(p, pr) ==
    IF verified_email(pr.ev) # NULL
    THEN procs' = [procs EXCEPT ![p] = [pr EXCEPT !.pc = "wh_email"]]
    ELSE IF card_fingerprint(pr.ev) # NULL
    THEN procs' = [procs EXCEPT ![p] = [pr EXCEPT !.pc = "wh_fingerprint"]]
    ELSE Decide(p, pr, NULL)

\* the access_token a search returns as .one: NULL when no row matches
OneOf(rows) == IF rows = {} THEN {NULL} ELSE {r.access_token : r \in rows}

\* 346-400: the preconditions and the lookup by access_token
WebhookLookup(p, ev) ==
    /\ Free(p)
    /\ nOps < MaxOps
    /\ nOps' = nOps + 1
    /\ UNCHANGED <<secret, aggregate, nMinted>>
    /\ LET pr0 == [NewRequest("webhook", NULL) EXCEPT !.ev = ev]
       IN IF Rejection(ev) # NULL
          THEN /\ Finish(p, pr0, Rejection(ev))
               /\ UNCHANGED <<shards, mirror, faults>>
          ELSE \E mode \in ReadModes :
                /\ Read(mode)
                /\ LET access_token == decryptToken(ev.client_reference_id, secret)
                       pr == [pr0 EXCEPT !.token = access_token,
                                         !.client = ShardOf(ev.client_reference_id)]
                   IN IF mode # "ok"
                      THEN Finish(p, pr, "exception")
                      ELSE IF SelectByToken(aggregate, access_token) # NoRow
                      THEN procs' = [procs EXCEPT ![p] = [pr EXCEPT !.pc = "wh_credit"]]
                      ELSE AfterTokenLookup(p, pr)

\* a credit that takes the payer's name for the email and the email for the name
CreditStmtSwapped(pr, access_token) ==
    StmtCredit(access_token, pr.ev.amount_total, pr.ev.name, pr.ev.email)

\* a credit that overwrites name and email and adds nothing
CreditStmtNothing(pr, access_token) ==
    StmtCredit(access_token, 0, pr.ev.email, pr.ev.name)

\* 415-421, 535-541: the credit of the event to the row of access_token
CreditStmt(pr, access_token) ==
    StmtCredit(access_token, pr.ev.amount_total, pr.ev.email, pr.ev.name)

\* 404-424: existing user, add balance
WebhookCredit(p) ==
    /\ procs[p].pc = "wh_credit"
    /\ UNCHANGED <<secret, aggregate, nOps, nMinted>>
    /\ LET pr == procs[p]
           s == CreditStmt(pr, pr.token)
       IN \E mode \in WriteModes : \E mir \in MirrorChoices(pr.client, s, mode) :
            /\ Exec(pr.rid, pr.client, s, mode, mir)
            /\ IF ExecThrows(pr.client, s, mode)
               THEN Finish(p, pr, "exception")
               ELSE Finish(p, pr, "200 Payment processed successfully")

\* 443-451: search by verified_email
WebhookByEmail(p) ==
    /\ procs[p].pc = "wh_email"
    /\ UNCHANGED <<secret, aggregate, nOps, nMinted>>
    /\ LET pr == procs[p]
       IN \E mode \in ReadModes :
            /\ Read(mode)
            /\ IF mode # "ok"
               THEN Finish(p, pr, "exception")
               ELSE \E t \in OneOf(SelectByEmail(aggregate, verified_email(pr.ev))) :
                      IF card_fingerprint(pr.ev) # NULL
                      THEN procs' = [procs EXCEPT ![p] =
                              [pr EXCEPT !.pc = "wh_fingerprint", !.alt = t]]
                      ELSE Decide(p, pr, t)

\* a choice that prefers the row found by card_fingerprint
FirstMatchFingerprint(userFromEmail, userFromFingerprint) ==
    IF userFromFingerprint # NULL THEN userFromFingerprint ELSE userFromEmail

\* 462-463: userFromEmail?.access_token || userFromFingerprint?.access_token
FirstMatch(userFromEmail, userFromFingerprint) ==
    IF userFromEmail # NULL THEN userFromEmail ELSE userFromFingerprint

\* 453-463: search by card_fingerprint; the email's match comes first
WebhookByFingerprint(p) ==
    /\ procs[p].pc = "wh_fingerprint"
    /\ UNCHANGED <<secret, aggregate, nOps, nMinted>>
    /\ LET pr == procs[p]
       IN \E mode \in ReadModes :
            /\ Read(mode)
            /\ IF mode # "ok"
               THEN Finish(p, pr, "exception")
               ELSE \E t \in OneOf(SelectByFingerprint(aggregate,
                                                      card_fingerprint(pr.ev))) :
                      Decide(p, pr, FirstMatch(pr.alt, t))

\* a new payer's row that trusts every channel's email
NewPayerRowTrusting(pr) ==
    [access_token |-> pr.token, balance |-> pr.ev.amount_total,
     email |-> pr.ev.email, verified_email |-> pr.ev.email,
     card_fingerprint |-> pr.ev.fingerprint, name |-> pr.ev.name,
     client_reference_id |-> pr.ev.client_reference_id,
     verified_user_access_token |-> NULL]

\* 477-486: the row of a new payer
NewPayerRow(pr) ==
    [access_token |-> pr.token, balance |-> pr.ev.amount_total,
     email |-> pr.ev.email, verified_email |-> verified_email(pr.ev),
     card_fingerprint |-> card_fingerprint(pr.ev), name |-> pr.ev.name,
     client_reference_id |-> pr.ev.client_reference_id,
     verified_user_access_token |-> NULL]

\* 465-489: no alternate identity, the user is created under the token
WebhookInsertNew(p) ==
    /\ procs[p].pc = "wh_insert_new"
    /\ UNCHANGED <<secret, aggregate, nOps, nMinted>>
    /\ LET pr == procs[p]
           s == StmtInsert(NewPayerRow(pr))
       IN \E mode \in WriteModes : \E mir \in MirrorChoices(pr.client, s, mode) :
            /\ Exec(pr.rid, pr.client, s, mode, mir)
            /\ IF ExecThrows(pr.client, s, mode)
               THEN Finish(p, pr, "exception")
               ELSE Finish(p, pr, "200 Payment processed successfully")

\* 513-517: the row that only forwards to the alternate identity
StubRow(pr) ==
    [DefaultRow(pr.token) EXCEPT !.verified_user_access_token = pr.alt]

\* 504-517
WebhookInsertStub(p) ==
    /\ procs[p].pc = "wh_insert_stub"
    /\ UNCHANGED <<secret, aggregate, nOps, nMinted>>
    /\ LET pr == procs[p]
           s == StmtInsert(StubRow(pr))
       IN \E mode \in WriteModes : \E mir \in MirrorChoices(pr.client, s, mode) :
            /\ Exec(pr.rid, pr.client, s, mode, mir)
            /\ IF ExecThrows(pr.client, s, mode)
               THEN Finish(p, pr, "exception")
               ELSE procs' = [procs EXCEPT ![p].pc = "wh_credit_verified"]

\* the credit of a merge sent to the event's own shard
eventUserClient(pr) == ShardOf(pr.ev.client_reference_id)

\* 520-529: the client of the verified user's own shard
verifiedUserClient(pr) == ShardOf(getClientReferenceId(pr.alt, secret))

\* 519-543: the balance goes to the verified user
WebhookCreditVerified(p) ==
    /\ procs[p].pc = "wh_credit_verified"
    /\ UNCHANGED <<secret, aggregate, nOps, nMinted>>
    /\ LET pr == procs[p]
           c == verifiedUserClient(pr)
           s == CreditStmt(pr, pr.alt)
       IN \E mode \in WriteModes : \E mir \in MirrorChoices(c, s, mode) :
            /\ Exec(pr.rid, c, s, mode, mir)
            /\ IF ExecThrows(c, s, mode)
               THEN Finish(p, pr, "exception")
               ELSE Finish(p, pr, "200 Payment processed successfully")

(***************************************************************************)
(* withStripeflare (middleware.ts 821-908): the wrapped handler's response *)
(* is charged by its X-Price header and reports X-Balance.                 *)
(***************************************************************************)
\* the headers of the handler's response the wrapper reads; NULL when absent
HandlerResponse(xPrice, xBalance) == [xPrice |-> xPrice, xBalance |-> xBalance]

\* isNaN(Number(text)) and Number(text), for the header values of the model
isNaN(text) == text \notin {"0", "1", "2"}
Number(text) == CASE text = "0" -> 0 [] text = "1" -> 1 [] text = "2" -> 2

\* 876-884: whether the response carries a price to charge
HasPrice(response) ==
    /\ response.xPrice # NULL
    /\ ~isNaN(response.xPrice)
    /\ Number(response.xPrice) > 0

\* an automatic charge that is refused when the balance does not cover it
AutoAllowNegativeNever == FALSE

\* 886: charge(price, true)
AutoAllowNegative == TRUE

\* 895-897: X-Balance, unless the handler set it
XBalance(response, balance) ==
    IF response.xBalance # NULL THEN response.xBalance ELSE ToString(balance)

\* 867-904: the handler has answered; its price is charged, the headers are
\* merged and the response is returned
AutoCharge(p, response) ==
    /\ procs[p].pc = "session"
    /\ UNCHANGED <<secret, aggregate, nOps, nMinted>>
    /\ LET pr == [procs[p] EXCEPT !.ev = response]
       IN IF ~HasPrice(response)
          THEN /\ Finish(p, pr, XBalance(response, pr.user.balance))
               /\ UNCHANGED <<shards, mirror, faults>>
          ELSE LET price == Number(response.xPrice)
                   s == ChargeStmt(pr.user.access_token, price, AutoAllowNegative)
               IN IF pr.client = NULL \/ pr.user.access_token = NULL
                  THEN /\ Finish(p, [pr EXCEPT !.charges = Append(@,
                                        ChargeRecord(price, AutoAllowNegative,
                                                     NotSignedUp))],
                                 XBalance(response, pr.user.balance))
                       /\ UNCHANGED <<shards, mirror, faults>>
                  ELSE \E mode \in WriteModes :
                       \E mir \in MirrorChoices(pr.client, s, mode) :
                        /\ Exec(pr.rid, pr.client, s, mode, mir)
                        /\ IF ExecThrows(pr.client, s, mode)
                           THEN Finish(p, pr, "exception")
                           ELSE LET answer ==
                                      ChargeAnswer(rowsWritten(shards[pr.client], s))
                                    balance == IF answer.charged
                                               THEN pr.user.balance - price
                                               ELSE pr.user.balance
                                IN Finish(p, [pr EXCEPT !.charges = Append(@,
                                                 ChargeRecord(price, AutoAllowNegative,
                                                              answer))],
                                          XBalance(response, balance))

(***************************************************************************)
(* Calls of the codec (part_000), on their own.                            *)
(***************************************************************************)
\* encryptToken(token, env.DB_SECRET)
Encrypt(p, token) ==
    /\ Free(p)
    /\ nOps < MaxOps
    /\ nOps' = nOps + 1
    /\ UNCHANGED <<secret, shards, aggregate, mirror, faults, nMinted>>
    /\ \E cipherText \in Encryptions(token, secret) :
          Finish(p, NewRequest("encryptToken", token), cipherText)

\* decryptToken(cipherText, env.DB_SECRET)
Decrypt(p, cipherText) ==
    /\ Free(p)
    /\ nOps < MaxOps
    /\ nOps' = nOps + 1
    /\ UNCHANGED <<secret, shards, aggregate, mirror, faults, nMinted>>
    /\ Finish(p, NewRequest("decryptToken", cipherText),
              decryptToken(cipherText, secret))

\* arrayBufferToBase64Url(buffer): the buffer is kept in log
ToBase64Url(p, buffer) ==
    /\ Free(p)
    /\ nOps < MaxOps
    /\ nOps' = nOps + 1
    /\ UNCHANGED <<secret, shards, aggregate, mirror, faults, nMinted>>
    /\ Finish(p, [NewRequest("arrayBufferToBase64Url", NULL) EXCEPT !.log = buffer],
              arrayBufferToBase64Url(buffer))

\* base64UrlToArrayBuffer(base64url): the bytes returned are kept in log
FromBase64Url(p, base64url) ==
    /\ Free(p)
    /\ nOps < MaxOps
    /\ nOps' = nOps + 1
    /\ UNCHANGED <<secret, shards, aggregate, mirror, faults, nMinted>>
    /\ LET pr == NewRequest("base64UrlToArrayBuffer", base64url)
       IN IF base64UrlThrows(base64url)
          THEN Finish(p, pr, "exception")
          ELSE Finish(p, [pr EXCEPT !.log = base64UrlToArrayBuffer(base64url)],
                      "bytes")

(***************************************************************************)
(* The /db/ route of stripeBalanceMiddleware (middleware.ts 188-226): the  *)
(* admin panel of one shard, behind basic auth.                            *)
(***************************************************************************)
\* the Authorization header of a /db/ request
BasicAuth(username, password) == [username |-> username, password |-> password]

UNAUTHORIZED == "401 Unauthorized"

\* 194-202: the shard the path names and the password that opens it; an
\* exception of decryptToken is not caught
DbRoute(nameParam) ==
    IF nameParam = AGGREGATE_NAME
    THEN [doName |-> AGGREGATE_NAME, secret |-> secret]
    ELSE [doName |-> getDOName(nameParam),
          secret |-> decryptToken(nameParam, secret)]

\* 188-226: GET /db/<nameParam>/... with the Authorization header auth
DbAccess(p, nameParam, auth) ==
    /\ Free(p)
    /\ nOps < MaxOps
    /\ nOps' = nOps + 1
    /\ UNCHANGED <<secret, shards, aggregate, mirror, faults, nMinted>>
    /\ LET pr == [NewRequest("db", nameParam) EXCEPT !.ev = auth]
           route == DbRoute(nameParam)
       IN IF route.secret = DECODE_ERROR
          THEN Finish(p, pr, "exception")
          ELSE IF auth = BasicAuth(route.doName, route.secret)
          THEN Finish(p, [pr EXCEPT !.client = VERSION \o "-" \o route.doName],
                      "200 OK")
          ELSE Finish(p, pr, UNAUTHORIZED)

(***************************************************************************)
(* Specifications.                                                         *)
(***************************************************************************)
\* a request arrives at p
Arrive(p) ==
    \/ \E op \in {"session", "rotate"}, cred \in Credentials \cup {NULL} :
          SessionLookup(p, op, cred)
    \/ \E ev \in Events : WebhookLookup(p, ev)
    \/ \E t \in Credentials, a \in Amounts, n \in BOOLEAN : chargeUser(p, t, a, n)

\* the state after the payment of a new payer: T1, funded with amount by card F1
Funded(amount, f) ==
    LET ev == [SomePaid EXCEPT !.amount_total = amount]
        pr == [Idle EXCEPT !.ev = ev,
                           !.token = decryptToken(ev.client_reference_id, secret)]
    IN /\ secret = DB_SECRET
       /\ shards = [n \in ShardNames |->
                      IF n = ShardOf(ev.client_reference_id)
                      THEN {NewPayerRow(pr)} ELSE {}]
       /\ aggregate = {NewPayerRow(pr)}
       /\ mirror = <<>>
       /\ procs = [p \in Procs |-> Idle]
       /\ nOps = 0
       /\ faults = f
       /\ nMinted = 0

Init == Empty(0)

\* requests one after the other, none failing, the secret fixed; the mirror
\* is applied in the background and a request arrives when it has caught up.
\* With the secret fixed every row read past the redirect stores the current
\* public identifier, so SessionWriteback (which needs a changed secret) is
\* never enabled; with no store call failing neither is RotateCleanup, a
\* disjunct of NextRotateFaults.
Next ==
    \/ mirror = <<>> /\ Arrive(1)
    \/ SessionRedirect(1)
    \/ \E a \in Amounts, n \in BOOLEAN : charge(1, a, n)
    \/ RotateCopy(1)
    \/ RotateDelete(1)
    \/ WebhookCredit(1)
    \/ WebhookByEmail(1)
    \/ WebhookByFingerprint(1)
    \/ WebhookInsertNew(1)
    \/ WebhookInsertStub(1)
    \/ WebhookCreditVerified(1)
    \/ \E i \in 1..Len(mirror) : MirrorApply(i)

Spec == Init /\ [][Next]_vars

\* the same requests, after a first payment
InitFunded == \E a \in Amounts : Funded(a, 0)

SpecFunded == InitFunded /\ [][Next]_vars

\* rotations, with store calls that fail
InitRotateFaults == \E a \in Amounts : Funded(a, MaxFailures)

NextRotateFaults ==
    \/ /\ mirror = <<>>
       /\ \E cred \in Credentials \cup {NULL} : SessionLookup(1, "rotate", cred)
    \/ RotateCopy(1)
    \/ RotateDelete(1)
    \/ RotateCleanup(1)
    \/ \E i \in 1..Len(mirror) : MirrorApply(i)

SpecRotateFaults == InitRotateFaults /\ [][NextRotateFaults]_vars

\* charges of requests running together against the one funded identity
InitCharges == \E a \in Amounts : Funded(a, 0)

NextCharges ==
    \/ \E p \in Procs :
        /\ procs[p].pc = "idle"
        /\ \/ SessionLookup(p, "session", "T1")
           \/ \E a \in Amounts, n \in BOOLEAN : chargeUser(p, "T1", a, n)
    \/ \E p \in Procs : \E a \in Amounts, n \in BOOLEAN : charge(p, a, n)
    \/ \E i \in 1..Len(mirror) : MirrorApply(i)

SpecCharges == InitCharges /\ [][NextCharges]_vars

\* env.DB_SECRET is replaced by a later secret, between requests
ChangeSecret ==
    /\ secret = DB_SECRET
    /\ \A p \in Procs : Free(p)
    /\ mirror = <<>>
    /\ secret' \in Secrets \ {secret}
    /\ UNCHANGED <<shards, aggregate, mirror, procs, nOps, faults, nMinted>>

\* the state after the payment of a new payer, T1 by card F1, and a second
\* payment by the same card for T2, merged into T1
Merged(amount, f) ==
    LET ev == [SomePaid EXCEPT !.amount_total = amount]
        first == [Idle EXCEPT !.ev = ev, !.token = "T1"]
        second == [Idle EXCEPT !.ev = ev, !.token = "T2", !.alt = "T1"]
        primary == Rewrite(NewPayerRow(first), CreditStmt(second, "T1"))
        rows == {primary, StubRow(second)}
    IN /\ secret = DB_SECRET
       /\ shards = [n \in ShardNames |->
                      {r \in rows : n = ShardOf(encryptToken(r.access_token, secret))}]
       /\ aggregate = rows
       /\ mirror = <<>>
       /\ procs = [p \in Procs |-> Idle]
       /\ nOps = 0
       /\ faults = f
       /\ nMinted = 0

\* the payment by card F1 of the payer E1, addressed to credential t
CardPayment(t) == [SomePaid EXCEPT !.client_reference_id = encryptToken(t, secret)]

\* sessions, rotations and payments, with a change of the secret
InitSecret == Funded(1, 0) \/ Merged(1, 0)

NextSecret ==
    \/ ChangeSecret
    \/ /\ mirror = <<>>
       /\ \/ \E op \in {"session", "rotate"}, cred \in Credentials :
                SessionLookup(1, op, cred)
          \/ \E t \in UserTokens : WebhookLookup(1, CardPayment(t))
    \/ SessionRedirect(1)
    \/ SessionWriteback(1)
    \/ charge(1, 1, FALSE)
    \/ RotateCopy(1)
    \/ RotateDelete(1)
    \/ WebhookCredit(1)
    \/ WebhookByFingerprint(1)
    \/ WebhookInsertNew(1)
    \/ WebhookInsertStub(1)
    \/ WebhookCreditVerified(1)
    \/ \E i \in 1..Len(mirror) : MirrorApply(i)

SpecSecret == InitSecret /\ [][NextSecret]_vars

\* sessions of every kind of credential and rotations, with store calls that
\* fail
InitSessions == \E a \in Amounts : Funded(a, MaxFailures) \/ Merged(a, MaxFailures)

NextSessions ==
    \/ /\ mirror = <<>>
       /\ \/ \E cred \in Credentials \cup MalformedTokens \cup {NULL} :
                SessionLookup(1, "session", cred)
          \/ \E cred \in UserTokens : SessionLookup(1, "rotate", cred)
    \/ SessionRedirect(1)
    \/ \E a \in Amounts : charge(1, a, FALSE)
    \/ RotateCopy(1)
    \/ RotateDelete(1)
    \/ RotateCleanup(1)
    \/ \E i \in 1..Len(mirror) : MirrorApply(i)

SpecSessions == InitSessions /\ [][NextSessions]_vars

\* payment events of every kind, with store calls that fail
InitReconcileFaults == Funded(1, MaxFailures)

NextReconcileFaults ==
    \/ mirror = <<>> /\ \E ev \in Events : WebhookLookup(1, ev)
    \/ WebhookCredit(1)
    \/ WebhookByEmail(1)
    \/ WebhookByFingerprint(1)
    \/ WebhookInsertNew(1)
    \/ WebhookInsertStub(1)
    \/ WebhookCreditVerified(1)
    \/ \E i \in 1..Len(mirror) : MirrorApply(i)

SpecReconcileFaults == InitReconcileFaults /\ [][NextReconcileFaults]_vars

\* the sender delivers an event and, after the 200 answer, delivers it again
Deliver == procs[1].pc = "idle" /\ \E ev \in PaidEvents : WebhookLookup(1, ev)

Redeliver ==
    /\ procs[2].pc = "idle"
    /\ procs[1].op = "webhook"
    /\ procs[1].result = "200 Payment processed successfully"
    /\ mirror = <<>>
    /\ WebhookLookup(2, procs[1].ev)

InitRedelivery == Empty(0) \/ \E a \in Amounts : Funded(a, 0)

NextRedelivery ==
    \/ Deliver
    \/ Redeliver
    \/ \E p \in Procs :
        \/ WebhookCredit(p)
        \/ WebhookByEmail(p)
        \/ WebhookByFingerprint(p)
        \/ WebhookInsertNew(p)
        \/ WebhookInsertStub(p)
        \/ WebhookCreditVerified(p)
    \/ \E i \in 1..Len(mirror) : MirrorApply(i)

SpecRedelivery == InitRedelivery /\ [][NextRedelivery]_vars

\* two reconciler invocations running together
NextReconcileRace ==
    \/ \E p \in Procs :
        /\ procs[p].pc = "idle"
        /\ \E ev \in PaidEvents : WebhookLookup(p, ev)
    \/ \E p \in Procs :
        \/ WebhookCredit(p)
        \/ WebhookByEmail(p)
        \/ WebhookByFingerprint(p)
        \/ WebhookInsertNew(p)
        \/ WebhookInsertStub(p)
        \/ WebhookCreditVerified(p)
    \/ \E i \in 1..Len(mirror) : MirrorApply(i)

SpecReconcileRace == Init /\ [][NextReconcileRace]_vars

\* the names a /db/ request can carry in its path: public identifiers of the
\* current secret and of another one, a text that is no codec output, and the
\* aggregate shard's name
DbNames ==
    {encryptToken(t, secret) : t \in UserTokens}
        \cup {encryptToken("T1", "S2"), "forged", AGGREGATE_NAME}

\* the Authorization headers a /db/ request to nameParam can carry
DbAuths(nameParam) ==
    {BasicAuth(u, pw) :
        u \in {getDOName(nameParam), AGGREGATE_NAME},
        pw \in UserTokens \cup {secret, NULL}}

\* admin requests and sessions, after a merged payment
InitDb == Merged(1, 0)

NextDb ==
    \/ /\ mirror = <<>>
       /\ \/ \E n \in DbNames : \E auth \in DbAuths(n) : DbAccess(1, n, auth)
          \/ \E cred \in UserTokens : SessionLookup(1, "session", cred)
    \/ SessionRedirect(1)
    \/ charge(1, 1, FALSE)
    \/ \E i \in 1..Len(mirror) : MirrorApply(i)

SpecDb == InitDb /\ [][NextDb]_vars

\* the X-Price and X-Balance headers the handler's response can carry
HandlerResponses ==
    {HandlerResponse(x, b) : x \in {NULL, "0", "1", "2", "abc"}, b \in {NULL, "7"}}

\* sessions that run the wrapped handler, next to a rotation of T1
InitAutoCharge == Funded(1, 0) \/ Merged(1, 0)

NextAutoCharge ==
    \/ \E p \in Procs :
        /\ procs[p].pc = "idle"
        /\ \/ \E cred \in UserTokens \cup {NULL} : SessionLookup(p, "session", cred)
           \/ SessionLookup(p, "rotate", "T1")
    \/ \E p \in Procs :
        \/ SessionRedirect(p)
        \/ \E r \in HandlerResponses : AutoCharge(p, r)
        \/ RotateCopy(p)
        \/ RotateDelete(p)
    \/ \E i \in 1..Len(mirror) : MirrorApply(i)

SpecAutoCharge == InitAutoCharge /\ [][NextAutoCharge]_vars

\* longest buffer handed to the transport encoding
MaxBuffer == 3
\* bytes whose digits include "+" and "/"
Bytes == {0, 251, 255}
Buffers == UNION {[1..n -> Bytes] : n \in 0..MaxBuffer}

\* the texts encryptToken is called with
Plaintexts == UserTokens \cup MalformedTokens \cup {""}

\* the texts the calls so far returned, by operation
Returned(op) == {procs[q].result : q \in {r \in Procs : procs[r].op = op}}

\* calls of the codec and of the operations that name a shard by it, under
\* either secret
InitCodec ==
    /\ secret \in Secrets
    /\ shards = [n \in ShardNames |-> {}]
    /\ aggregate = {}
    /\ mirror = <<>>
    /\ procs = [p \in Procs |-> Idle]
    /\ nOps = 0
    /\ faults = 0
    /\ nMinted = 0

NextCodec ==
    \/ \E p \in Procs :
        \/ \E token \in Plaintexts : Encrypt(p, token)
        \/ \E cipherText \in Returned("encryptToken") \cup {"forged"} :
              Decrypt(p, cipherText)
        \/ \E buffer \in Buffers : ToBase64Url(p, buffer)
        \/ \E text \in Returned("arrayBufferToBase64Url") \cup {"QR", "Q", "Q*"} :
              FromBase64Url(p, text)
        \/ \E t \in UserTokens : chargeUser(p, t, 1, FALSE)
        \/ \E t \in UserTokens : SessionLookup(p, "session", t)
    \/ \E i \in 1..Len(mirror) : MirrorApply(i)

SpecCodec == InitCodec /\ [][NextCodec]_vars

\* the state after a merged payment (T2 forwards to T1), the rotation of T1
\* to U1 and a payment for T1 by the same card: T1 forwards to U1
Chained(amount, f) ==
    LET ev == [SomePaid EXCEPT !.amount_total = amount]
        first == [Idle EXCEPT !.ev = ev, !.token = "T1"]
        second == [Idle EXCEPT !.ev = ev, !.token = "T2", !.alt = "T1"]
        third == [Idle EXCEPT !.ev = ev, !.token = "T1", !.alt = "U1"]
        merged == Rewrite(NewPayerRow(first), CreditStmt(second, "T1"))
        rotated == Rewrite(RotatedRow(merged, "U1"), CreditStmt(third, "U1"))
        rows == {rotated, StubRow(second), StubRow(third)}
    IN /\ secret = DB_SECRET
       /\ shards = [n \in ShardNames |->
                      {r \in rows : n = ShardOf(encryptToken(r.access_token, secret))}]
       /\ aggregate = rows
       /\ mirror = <<>>
       /\ procs = [p \in Procs |-> Idle]
       /\ nOps = 0
       /\ faults = f
       /\ nMinted = 1

\* sessions of every kind of credential, with store calls that fail
InitResolve ==
    \/ Funded(1, MaxFailures)
    \/ Merged(1, MaxFailures)
    \/ Chained(1, MaxFailures)

NextResolve ==
    \/ /\ mirror = <<>>
       /\ \E cred \in Credentials \cup MalformedTokens \cup {NULL} :
             SessionLookup(1, "session", cred)
    \/ SessionRedirect(1)
    \/ SessionWriteback(1)
    \/ \E i \in 1..Len(mirror) : MirrorApply(i)

SpecResolve == InitResolve /\ [][NextResolve]_vars

\* the paid events addressed to T1 by the payer who funded it
RaceEvents ==
    {ev \in PaidEvents :
        ev.client_reference_id = encryptToken("T1", secret) /\ ev.email = "E1"}

\* a rotation of the funded identity T1 running together with a reconciliation
\* for T1 or a conditional charge on T1; no store call fails
InitRotateRace == \E a \in Amounts : Funded(a, 0)

\* two requests in all: T1 has no forwarding pointer before the second one
\* has finished, so no rotation here follows one (SessionRedirect)
NextRotateRace ==
    \/ \E p \in Procs :
        /\ procs[p].pc = "idle"
        /\ \/ SessionLookup(p, "rotate", "T1")
           \/ \E ev \in RaceEvents : WebhookLookup(p, ev)
           \/ \E a \in Amounts : chargeUser(p, "T1", a, FALSE)
    \/ \E p \in Procs :
        \/ RotateCopy(p)
        \/ RotateDelete(p)
        \/ WebhookCredit(p)
        \/ WebhookByEmail(p)
        \/ WebhookByFingerprint(p)
        \/ WebhookInsertNew(p)
        \/ WebhookInsertStub(p)
        \/ WebhookCreditVerified(p)
    \/ \E i \in 1..Len(mirror) : MirrorApply(i)

SpecRotateRace == InitRotateRace /\ [][NextRotateRace]_vars

(***************************************************************************)
(* Properties.                                                             *)
(***************************************************************************)
UserShard(t) == ShardOf(encryptToken(t, secret))

RECURSIVE SumCharged(_)
\* the amounts of the charges of a sequence that reported success
SumCharged(cs) ==
    IF cs = <<>> THEN 0
    ELSE (IF Head(cs).charged THEN Head(cs).amt ELSE 0) + SumCharged(Tail(cs))

RECURSIVE TotalCharged(_)
TotalCharged(ps) ==
    IF ps = {} THEN 0
    ELSE LET p == CHOOSE q \in ps : TRUE
         IN SumCharged(procs[p].charges) + TotalCharged(ps \ {p})

OnlyConditional ==
    \A p \in Procs : \A i \in 1..Len(procs[p].charges) :
        ~procs[p].charges[i].allowNegative

\* C1: charges with allowNegative=false that run together against one funded
\* identity, with no credit in between, never take its user-shard balance
\* below zero, and those that report success sum to at most the balance the
\* row had before the first of them.
C1_ChargeAtomicity ==
    OnlyConditional =>
        /\ \A n \in ShardNames : \A r \in shards[n] : r.balance >= 0
        /\ \A p \in Procs :
              procs[p].rid = 1 =>
                 TotalCharged(Procs)
                    <= RowOf(procs[p].snap.shards[UserShard("T1")], "T1").balance

\* two sessions both resolved a sufficient balance; one charge is refused
C1_Witness ==
    \E p, q \in Procs :
        /\ p # q
        /\ OnlyConditional
        /\ procs[p].op = "session" /\ procs[q].op = "session"
        /\ Len(procs[p].charges) = 1 /\ Len(procs[q].charges) = 1
        /\ procs[p].charges[1].charged
        /\ ~procs[q].charges[1].charged
        /\ procs[q].user.balance >= procs[q].charges[1].amt

\* the access_token a request's charges address
ChargedToken(pr) == IF pr.op = "chargeUser" THEN pr.cred ELSE pr.user.access_token

\* a request that charged a row which existed when the request arrived
ChargedExisting(pr) ==
    /\ pr.op \in {"session", "chargeUser"}
    /\ pr.charges # <<>>
    /\ pr.client # NULL
    /\ Has(pr.snap.shards[pr.client], ChargedToken(pr))

BalanceBefore(pr, i) ==
    RowOf(pr.snap.shards[pr.client], ChargedToken(pr)).balance
        - SumCharged(SubSeq(pr.charges, 1, i - 1))

\* C2: a charge on an identity whose row exists is the reference conditional
\* update: it reports success and takes exactly amount off the balance when
\* allowNegative, or when the balance is at least amount as the statement
\* executes; otherwise it reports "User balance too low" and the balance stays.
C2_ChargeIsConditionalUpdate ==
    \A p \in Procs :
        LET pr == procs[p]
        IN ChargedExisting(pr) =>
            /\ \A i \in 1..Len(pr.charges) :
                  LET c == pr.charges[i]
                  IN /\ c.charged <=> (c.allowNegative \/ BalanceBefore(pr, i) >= c.amt)
                     /\ c.charged => c.message = "Successfully charged"
                     /\ ~c.charged => c.message = "User balance too low"
            /\ Has(shards[pr.client], ChargedToken(pr))
            /\ RowOf(shards[pr.client], ChargedToken(pr)).balance
                  = BalanceBefore(pr, Len(pr.charges) + 1)

\* a conditional charge refused for a balance below the amount
C2_Witness ==
    \E p \in Procs :
        /\ ChargedExisting(procs[p])
        /\ ~procs[p].charges[1].allowNegative
        /\ ~procs[p].charges[1].charged
        /\ BalanceBefore(procs[p], 1) < procs[p].charges[1].amt
        /\ BalanceBefore(procs[p], 1) > 0

\* a session resolved for a presented credential that has no row
UnfundedSession(pr) ==
    /\ pr.op = "session"
    /\ pr.pc = "session"
    /\ pr.cred # NULL
    /\ \A n \in ShardNames : ~Has(pr.snap.shards[n], pr.cred)

\* C3: a charge for the unpersisted identity of a credential that was never
\* funded fails as "not signed up" (NotFunded), not as "balance too low", and
\* changes no shard.
C3_UnfundedChargeIsNotFunded ==
    \A p \in Procs :
        LET pr == procs[p]
        IN UnfundedSession(pr) =>
            /\ \A i \in 1..Len(pr.charges) :
                  /\ ~pr.charges[i].charged
                  /\ pr.charges[i].message = NotSignedUp.message
            /\ shards = pr.snap.shards

\* a paid event, addressed to a token under the current secret, that the
\* reconciler has answered
Reconciled(pr) ==
    /\ pr.op = "webhook"
    /\ pr.pc = "done"
    /\ pr.ev.payment_status = "paid"
    /\ pr.ev.amount_total > 0
    /\ pr.ev.email # NULL
    /\ pr.ev.client_reference_id # NULL
    /\ decryptToken(pr.ev.client_reference_id, secret) # DECODE_ERROR

EventToken(pr) == decryptToken(pr.ev.client_reference_id, secret)
EventVerifiedEmail(pr) == IF pr.ev.type = "link" THEN pr.ev.email ELSE NULL

\* the tokens of the aggregate rows, as the event arrived, that match its
\* verified email or its card fingerprint
EmailMatches(pr) ==
    {r.access_token : r \in {x \in pr.snap.aggregate :
        EventVerifiedEmail(pr) # NULL /\ x.verified_email = EventVerifiedEmail(pr)}}
FingerprintMatches(pr) ==
    {r.access_token : r \in {x \in pr.snap.aggregate :
        pr.ev.fingerprint # NULL /\ x.card_fingerprint = pr.ev.fingerprint}}

Processed(pr) == pr.result = "200 Payment processed successfully"

\* C4: a paid event of amount a for a token T without a row in the aggregate
\* view, whose verified email and card fingerprint match no aggregate row,
\* inserts exactly one row keyed by T, in T's shard and in the aggregate
\* mirror: balance a, the card fingerprint, verified_email null for a card,
\* the payer's name and email, the event's public identifier, no forwarding
\* pointer; no other row changes.
C4_NewPayer ==
    \A p \in Procs :
        LET pr == procs[p]
            T == EventToken(pr)
            row == [access_token |-> T, balance |-> pr.ev.amount_total,
                    name |-> pr.ev.name, email |-> pr.ev.email,
                    verified_email |-> EventVerifiedEmail(pr),
                    verified_user_access_token |-> NULL,
                    card_fingerprint |-> pr.ev.fingerprint,
                    client_reference_id |-> pr.ev.client_reference_id]
        IN (/\ Reconciled(pr)
            /\ ~Has(pr.snap.aggregate, T)
            /\ EmailMatches(pr) = {}
            /\ FingerprintMatches(pr) = {})
           => /\ Processed(pr)
              /\ ~Has(pr.snap.shards[UserShard(T)], T)
              /\ shards = [pr.snap.shards EXCEPT ![UserShard(T)] = @ \cup {row}]
              /\ aggregate \in {pr.snap.aggregate, pr.snap.aggregate \cup {row}}
              /\ mirror = <<>> => aggregate = pr.snap.aggregate \cup {row}

\* a card payer is added beside the rows of other payers
C4_Witness ==
    \E p \in Procs :
        /\ Reconciled(procs[p])
        /\ ~Has(procs[p].snap.aggregate, EventToken(procs[p]))
        /\ EmailMatches(procs[p]) = {}
        /\ FingerprintMatches(procs[p]) = {}
        /\ procs[p].snap.aggregate # {}
        /\ procs[p].ev.type = "card"
        /\ mirror = <<>>
        /\ Cardinality(aggregate) = Cardinality(procs[p].snap.aggregate) + 1

\* C5: a paid event of amount a for a token T2 without a row, while the
\* aggregate view holds a row of another token T1 that matches the event's
\* verified email or card fingerprint, leaves T2 a row holding only the
\* forwarding pointer to T1 and raises T1's balance by exactly a, in T1's
\* shard and in the aggregate mirror.
C5_Merge ==
    \A p \in Procs :
        LET pr == procs[p]
            T2 == EventToken(pr)
            stub(T1) == [access_token |-> T2, balance |-> 0, name |-> NULL,
                         email |-> NULL, verified_email |-> NULL,
                         verified_user_access_token |-> T1,
                         card_fingerprint |-> NULL, client_reference_id |-> NULL]
        IN (/\ Reconciled(pr)
            /\ ~Has(pr.snap.aggregate, T2)
            /\ EmailMatches(pr) \cup FingerprintMatches(pr) # {})
           => /\ Processed(pr)
              /\ \E T1 \in (EmailMatches(pr) \cup FingerprintMatches(pr)) \ {T2} :
                   /\ shards[UserShard(T2)] = {stub(T1)}
                   /\ Has(pr.snap.shards[UserShard(T1)], T1)
                   /\ Has(shards[UserShard(T1)], T1)
                   /\ RowOf(shards[UserShard(T1)], T1).balance
                        = RowOf(pr.snap.shards[UserShard(T1)], T1).balance
                            + pr.ev.amount_total
                   /\ mirror = <<>> =>
                        /\ stub(T1) \in aggregate
                        /\ RowOf(aggregate, T1).balance
                             = RowOf(pr.snap.aggregate, T1).balance
                                 + pr.ev.amount_total

\* a second token pays with the card of a funded one
C5_Witness ==
    \E p \in Procs :
        /\ Reconciled(procs[p])
        /\ ~Has(procs[p].snap.aggregate, EventToken(procs[p]))
        /\ FingerprintMatches(procs[p]) # {}
        /\ EmailMatches(procs[p]) = {}
        /\ mirror = <<>>
        /\ \E r \in aggregate :
              /\ r.access_token = EventToken(procs[p])
              /\ r.verified_user_access_token \in FingerprintMatches(procs[p])

\* C6: a paid event of amount a for a token T that has a row in the aggregate
\* view raises the balance of T's row by exactly a and overwrites its name
\* and email with the payer's, in T's shard and in the aggregate mirror; the
\* row's other columns and every other row stay, and no row is inserted.
C6_ExistingRow ==
    \A p \in Procs :
        LET pr == procs[p]
            T == EventToken(pr)
            credited(r) == [r EXCEPT !.balance = @ + pr.ev.amount_total,
                                     !.name = pr.ev.name, !.email = pr.ev.email]
            after(table) == (table \ {RowOf(table, T)}) \cup {credited(RowOf(table, T))}
        IN (Reconciled(pr) /\ Has(pr.snap.aggregate, T))
           => /\ Processed(pr)
              /\ Has(pr.snap.shards[UserShard(T)], T)
              /\ shards = [pr.snap.shards EXCEPT ![UserShard(T)] = after(@)]
              /\ aggregate \in {pr.snap.aggregate, after(pr.snap.aggregate)}
              /\ mirror = <<>> => aggregate = after(pr.snap.aggregate)

\* a second payment to a funded token, by another payer
C6_Witness ==
    \E p \in Procs :
        /\ Reconciled(procs[p])
        /\ Has(procs[p].snap.aggregate, EventToken(procs[p]))
        /\ RowOf(procs[p].snap.aggregate, EventToken(procs[p])).email # procs[p].ev.email
        /\ Cardinality(aggregate) = 2
        /\ mirror = <<>>

\* the row a credential has in its own shard as the request arrived
OwnRow(pr, t) == SelectByToken(pr.snap.shards[UserShard(t)], t)

\* a session resolved for a credential whose row is a stub
StubSession(pr) ==
    /\ pr.op = "session"
    /\ pr.pc = "session"
    /\ pr.cred # NULL
    /\ OwnRow(pr, pr.cred) # NoRow
    /\ OwnRow(pr, pr.cred).verified_user_access_token # NULL

PointerOf(pr) == OwnRow(pr, pr.cred).verified_user_access_token

\* what login by payment promises of a session resolved through a stub
LoggedInAs(pr, T1) ==
    /\ OwnRow(pr, T1) # NoRow
    /\ pr.user = OwnRow(pr, T1)
    /\ pr.client = UserShard(T1)
    /\ pr.cookie = T1
    /\ Has(shards[UserShard(T1)], T1)
    /\ RowOf(shards[UserShard(T1)], T1)
         = [OwnRow(pr, T1) EXCEPT !.balance = @ - SumCharged(pr.charges)]
    /\ shards = [pr.snap.shards EXCEPT ![UserShard(T1)] =
                    (@ \ {OwnRow(pr, T1)}) \cup {RowOf(shards[UserShard(T1)], T1)}]

\* C7: once a merge left T2 a stub pointing at T1, a session presented with
\* T2, while T1's row is still in T1's shard, returns T1's record as the
\* user, a handle on T1's shard, so that a charge debits T1's row, and a
\* cookie that sets the credential to T1.
C7_LoginByPayment ==
    \A p \in Procs :
        LET pr == procs[p]
        IN (StubSession(pr) /\ OwnRow(pr, PointerOf(pr)) # NoRow)
           => LoggedInAs(pr, PointerOf(pr))

\* C7 as stated: every session presented with T2 returns T1's record
C7_EveryLaterSession ==
    \A p \in Procs :
        StubSession(procs[p]) => LoggedInAs(procs[p], PointerOf(procs[p]))

\* a session through the stub charged the merged balance of the other token
C7_Witness ==
    \E p \in Procs :
        /\ StubSession(procs[p])
        /\ OwnRow(procs[p], PointerOf(procs[p])) # NoRow
        /\ procs[p].user.balance >= 2
        /\ Len(procs[p].charges) = 1
        /\ procs[p].charges[1].charged
        /\ procs[p].cookie # procs[p].cred

\* the token whose row a request's session resolves: the credential, or the
\* target of the forwarding pointer of the credential's row
Effective(pr) ==
    IF OwnRow(pr, pr.cred) # NoRow
       /\ OwnRow(pr, pr.cred).verified_user_access_token # NULL
    THEN OwnRow(pr, pr.cred).verified_user_access_token
    ELSE pr.cred

\* a rotation that answered, of a credential that resolves to a row
Rotated(pr) ==
    /\ pr.op = "rotate"
    /\ pr.pc = "done"
    /\ pr.cred # NULL
    /\ OwnRow(pr, pr.cred) # NoRow
    /\ OwnRow(pr, Effective(pr)) # NoRow

RotationSucceeded(pr) == pr.result = "200 Token rotated successfully"
RotationFailed(pr) == pr.result = "500 Failed to rotate token"

\* the row of token t is gone from its shard and, once mirrored, from the
\* aggregate
Retired(t) ==
    /\ ~Has(shards[UserShard(t)], t)
    /\ mirror = <<>> => ~Has(aggregate, t)

\* the new credential's row carries the ledger columns of the row old
Migrated(new, old) ==
    /\ Has(shards[UserShard(new)], new)
    /\ LET r == RowOf(shards[UserShard(new)], new)
       IN /\ r.balance = old.balance
          /\ r.email = old.email
          /\ r.card_fingerprint = old.card_fingerprint
          /\ r.verified_email = old.verified_email
          /\ r.name = old.name
          /\ r.verified_user_access_token = NULL
          /\ r.client_reference_id = encryptToken(new, secret)
          /\ mirror = <<>> => r \in aggregate

\* C8: after a rotation that reports success for a credential T resolving to
\* the row of E (T itself, or the token T's stub points at), no row keyed by
\* E remains in E's shard or the aggregate mirror, and the new credential T'
\* has a row with the balance, email and card_fingerprint of E's row before
\* the rotation, a null forwarding pointer and client_reference_id =
\* encryptToken(T', secret); a stub row of T stays where it was.
C8_RotationMovesRow ==
    \A p \in Procs :
        LET pr == procs[p]
            E == Effective(pr)
        IN (Rotated(pr) /\ RotationSucceeded(pr))
           => /\ Retired(E)
              /\ Migrated(pr.cookie, OwnRow(pr, E))
              /\ E # pr.cred =>
                    shards[UserShard(pr.cred)] = pr.snap.shards[UserShard(pr.cred)]

\* C8 as stated: the row keyed by the presented credential T is gone and T'
\* carries the columns of T's row
C8_PresentedCredentialRetired ==
    \A p \in Procs :
        LET pr == procs[p]
        IN (Rotated(pr) /\ RotationSucceeded(pr))
           => /\ Retired(pr.cred)
              /\ Migrated(pr.cookie, OwnRow(pr, pr.cred))

\* a funded row was moved to the new credential, and the mirror caught up
C8_Witness ==
    \E p \in Procs :
        /\ Rotated(procs[p])
        /\ RotationSucceeded(procs[p])
        /\ OwnRow(procs[p], Effective(procs[p])).balance > 0
        /\ mirror = <<>>
        /\ Has(aggregate, procs[p].cookie)

\* a rotation whose copy succeeded and whose delete of the old row failed
\* without taking effect
DeleteFailed(pr) ==
    /\ Rotated(pr)
    /\ Len(pr.log) >= 2
    /\ pr.log[1] = "ok"
    /\ pr.log[2] = "lost"

OldRowKept(pr) ==
    /\ Has(shards[UserShard(Effective(pr))], Effective(pr))
    /\ RowOf(shards[UserShard(Effective(pr))], Effective(pr))
         = OwnRow(pr, Effective(pr))

NewRowKept(pr) == Has(shards[UserShard(pr.token)], pr.token)

\* C9: when the copy succeeds and the delete of the old row fails, the
\* rotation reports failure, the old row stays as it was, and the cleanup
\* deletes the new row: two funded rows remain only when the cleanup delete
\* fails as well.
C9_DeleteFailureCleansUp ==
    \A p \in Procs :
        LET pr == procs[p]
        IN DeleteFailed(pr)
           => /\ RotationFailed(pr)
              /\ pr.cookie = NULL
              /\ OldRowKept(pr)
              /\ Len(pr.log) = 3
              /\ NewRowKept(pr) <=> pr.log[3] = "lost"

\* C9 as stated: the new row is kept and the old row still exists
C9_TwoFundedRows ==
    \A p \in Procs :
        DeleteFailed(procs[p]) => (NewRowKept(procs[p]) /\ OldRowKept(procs[p]))

\* the delete failed and the cleanup removed the copy
C9_Witness ==
    \E p \in Procs :
        /\ DeleteFailed(procs[p])
        /\ procs[p].log = <<"ok", "lost", "ok">>
        /\ OwnRow(procs[p], Effective(procs[p])).balance > 0
        /\ mirror = <<>>

\* a rotation whose copy failed
CopyFailed(pr) ==
    /\ Rotated(pr)
    /\ Len(pr.log) = 2
    /\ pr.log[1] # "ok"

\* C10: when the copy to the new credential fails, the rotation reports
\* failure, the old row is left as it was and, when the cleanup delete
\* succeeds, no row keyed by the new credential remains in the new shard or
\* the aggregate mirror.
C10_CopyFailure ==
    \A p \in Procs :
        LET pr == procs[p]
        IN CopyFailed(pr)
           => /\ RotationFailed(pr)
              /\ pr.cookie = NULL
              /\ OldRowKept(pr)
              /\ pr.log[2] = "ok" => Retired(pr.token)

\* the copy was written and reported failed; the cleanup removed it
C10_Witness ==
    \E p \in Procs :
        /\ CopyFailed(procs[p])
        /\ procs[p].log = <<"after", "ok">>
        /\ mirror = <<>>
        /\ ~Has(aggregate, procs[p].token)

\* a session resolved for a credential whose row was written under another
\* secret than the current one, and still carries that secret's identifier
StaleSession(pr, old) ==
    /\ pr.op = "session"
    /\ pr.pc = "session"
    /\ pr.cred # NULL
    /\ old # secret
    /\ LET home == pr.snap.shards[ShardOf(encryptToken(pr.cred, old))]
       IN /\ Has(home, pr.cred)
          /\ RowOf(home, pr.cred).client_reference_id = encryptToken(pr.cred, old)
          /\ RowOf(home, pr.cred).verified_user_access_token = NULL
          /\ RowOf(home, pr.cred).balance > 0

StaleRow(pr, old) ==
    RowOf(pr.snap.shards[ShardOf(encryptToken(pr.cred, old))], pr.cred)

\* C11: a funded row of token T written under secret S1 is found by the
\* next session presented with T after the secret became S2, which rewrites
\* its client_reference_id to encryptToken(T, S2) and leaves access_token
\* and balance as they were.
C11_StaleSecretSelfHeal ==
    \A p \in Procs : \A old \in Secrets :
        LET pr == procs[p]
        IN StaleSession(pr, old)
           => /\ pr.user.access_token = pr.cred
              /\ pr.user.balance = StaleRow(pr, old).balance
              /\ pr.user.client_reference_id = encryptToken(pr.cred, secret)
              /\ \E n \in ShardNames :
                    [StaleRow(pr, old) EXCEPT
                        !.client_reference_id = encryptToken(pr.cred, secret)]
                      \in shards[n]

AllRows == aggregate \cup UNION {shards[n] : n \in ShardNames}

\* C12: with the secret fixed, every persisted row, in a user shard or in
\* the aggregate mirror, the rows of the merge branch included, has
\* client_reference_id = encryptToken(access_token, secret).
C12_PublicIdIsCurrent ==
    \A r \in AllRows : r.client_reference_id = encryptToken(r.access_token, secret)

\* a session resolved for a presented credential that has no row
Resolved(pr) == pr.op = "session" /\ pr.pc = "session"
RowNotFound(pr) == Resolved(pr) /\ pr.cred # NULL /\ OwnRow(pr, pr.cred) = NoRow

\* the tokens crypto.randomUUID() has returned so far
Minted == {FreshTokens[i] : i \in 1..nMinted}

\* an unpersisted record: balance 0, no email, the public identifier of t,
\* and no row of t in a user shard
IsUnpersisted(user, t) ==
    /\ user.access_token = t
    /\ user.balance = 0
    /\ user.email = NULL
    /\ user.client_reference_id = encryptToken(t, secret)
    /\ \A n \in ShardNames : ~Has(shards[n], t)

\* C13: a session presented with a credential whose row cannot be found does
\* not fail; it returns an unpersisted record, balance 0 and null email, with
\* the public identifier of its access_token: keyed by the presented
\* credential itself when that has the UUID format, and by a newly drawn
\* credential only when it has not.
C13_FallbackKeepsWellFormed ==
    \A p \in Procs :
        LET pr == procs[p]
        IN (pr.op = "session" /\ pr.cred # NULL /\ OwnRow(pr, pr.cred) = NoRow)
           => /\ pr.pc \in {"session", "done"}
              /\ pr.cookie # NULL
              /\ IsUnpersisted(pr.user, pr.user.access_token)
              /\ uuidGeneralRegex(pr.cred) => pr.user.access_token = pr.cred
              /\ ~uuidGeneralRegex(pr.cred) => pr.user.access_token \in Minted

\* C13 as stated: the record is keyed by a fresh credential
C13_FallbackMintsFresh ==
    \A p \in Procs :
        RowNotFound(procs[p])
           => /\ procs[p].user.access_token # procs[p].cred
              /\ procs[p].user.access_token \in Minted
              /\ IsUnpersisted(procs[p].user, procs[p].user.access_token)

\* a drawn credential, presented again before any payment, is kept
C13_Witness ==
    \E p \in Procs :
        /\ RowNotFound(procs[p])
        /\ procs[p].cred \in Minted
        /\ procs[p].user.access_token = procs[p].cred
        /\ aggregate # {}

\* C14: every session resolution, with no credential, a credential not
\* found, found or redirected, or a lookup that failed, sets the cookie to
\* the access_token of the user record it returns.
C14_CookieIsEffectiveToken ==
    \A p \in Procs :
        Resolved(procs[p])
           => /\ procs[p].cookie = procs[p].user.access_token
              /\ uuidGeneralRegex(procs[p].cookie)

\* a redirected session: the cookie replaces the presented credential
C14_Witness ==
    \E p \in Procs :
        /\ Resolved(procs[p])
        /\ procs[p].cred # NULL
        /\ procs[p].cookie # procs[p].cred
        /\ OwnRow(procs[p], procs[p].cred) # NoRow
        /\ procs[p].user.balance > 0

\* the step in which the reconciler receives an event at p
Receives(p) == procs'[p].rid # procs[p].rid /\ procs'[p].op = "webhook"

StoreUntouched == UNCHANGED <<shards, aggregate, mirror, faults>>

\* a complete paid event whose public identifier does not decrypt
Undecodable(ev) ==
    /\ ev.payment_status = "paid"
    /\ ev.amount_total > 0
    /\ ev.client_reference_id # NULL
    /\ ev.email # NULL
    /\ decryptToken(ev.client_reference_id, secret) = DECODE_ERROR

Incomplete(ev) ==
    \/ ev.payment_status # "paid"
    \/ ev.amount_total = 0
    \/ ev.client_reference_id = NULL

\* C16: for an event whose payment status is not paid, whose amount is zero
\* or absent, or whose public identifier is absent, the reconciler answers in
\* the step that receives it, before any store call: no user shard and no
\* aggregate row changes and nothing is queued for the mirror.
C16_IncompleteEventWritesNothing ==
    [][\A p \in Procs :
          (Receives(p) /\ Incomplete(procs'[p].ev))
             => /\ procs'[p].pc = "done"
                /\ procs'[p].result \in {"400 Payment not completed",
                                         "400 Missing client_reference_id"}
                /\ StoreUntouched]_vars

\* an unpaid event for a funded token left the row as it was
C16_Witness ==
    \E p \in Procs :
        /\ procs[p].op = "webhook"
        /\ procs[p].pc = "done"
        /\ procs[p].ev.payment_status # "paid"
        /\ procs[p].ev.client_reference_id = encryptToken("T1", secret)
        /\ Has(aggregate, "T1")
        /\ aggregate = procs[p].snap.aggregate
        /\ shards = procs[p].snap.shards

\* a completed-payment event without public identifier, amount or payer email
MissingField(ev) ==
    /\ ev.payment_status = "paid"
    /\ \/ ev.client_reference_id = NULL
       \/ ev.amount_total = 0
       \/ ev.email = NULL

\* the answers an at-least-once sender takes as delivered: status 2xx
Acknowledged(result) == SubSeq(result, 1, 1) = "2"

\* C17: a completed-payment event that misses its public identifier, its
\* amount or the payer's email is answered with an acknowledgement that does
\* not make the sender deliver it again.
C17_MissingFieldIsAcknowledged ==
    \A p \in Procs :
        (procs[p].op = "webhook" /\ procs[p].pc = "done"
            /\ MissingField(procs[p].ev))
           => Acknowledged(procs[p].result)

\* the verified emails a table holds, by access_token
VerifiedEmails(table) ==
    {<<r.access_token, r.verified_email>> : r \in {x \in table : x.verified_email # NULL}}

\* the rows of the aggregate view, as the event arrived, whose verified email
\* is the email the payer typed
TypedEmailMatches(pr) ==
    {r.access_token : r \in {x \in pr.snap.aggregate : x.verified_email = pr.ev.email}}

\* C18: for an event paid by raw card the payer's email is never stored as
\* verified_email, in no shard and not in the aggregate, and never selects
\* the identity to merge into: a merge decided for a card event points at a
\* row matched by the card fingerprint, and a card payer who typed the verified
\* email of another payer, with a card that matches no row, gets a row of
\* their own.
C18_CardEmailIsUntrusted ==
    \A p \in Procs :
        LET pr == procs[p]
            T == EventToken(pr)
        IN (Reconciled(pr) /\ pr.ev.type = "card")
           => /\ \A n \in ShardNames :
                    VerifiedEmails(shards[n]) = VerifiedEmails(pr.snap.shards[n])
              /\ VerifiedEmails(aggregate) = VerifiedEmails(pr.snap.aggregate)
              /\ (~Has(pr.snap.aggregate, T) /\ Has(shards[UserShard(T)], T))
                    => LET row == RowOf(shards[UserShard(T)], T)
                       IN /\ row.verified_email = NULL
                          /\ row.verified_user_access_token # NULL
                                => row.verified_user_access_token
                                      \in FingerprintMatches(pr)
                          /\ FingerprintMatches(pr) = {}
                                => row.verified_user_access_token = NULL

\* a card payer typed the verified email of another payer and was not merged
C18_Witness ==
    \E p \in Procs :
        /\ Reconciled(procs[p])
        /\ procs[p].ev.type = "card"
        /\ Processed(procs[p])
        /\ TypedEmailMatches(procs[p]) \ {EventToken(procs[p])} # {}
        /\ FingerprintMatches(procs[p]) = {}
        /\ ~Has(procs[p].snap.aggregate, EventToken(procs[p]))
        /\ Has(aggregate, EventToken(procs[p]))
        /\ RowOf(aggregate, EventToken(procs[p])).verified_user_access_token = NULL

\* the balance of token t in its shard, 0 when it has no row
BalanceIn(shardsNow, t) ==
    IF Has(shardsNow[UserShard(t)], t)
    THEN RowOf(shardsNow[UserShard(t)], t).balance ELSE 0

\* an event was processed, delivered again and processed again
Redelivered ==
    /\ procs[1].op = "webhook" /\ Processed(procs[1])
    /\ procs[2].op = "webhook" /\ Processed(procs[2])
    /\ procs[2].ev = procs[1].ev

\* the first delivery took the merge branch
FirstMerged ==
    /\ ~Has(procs[1].snap.aggregate, EventToken(procs[1]))
    /\ EmailMatches(procs[1]) \cup FingerprintMatches(procs[1]) # {}

\* the token whose balance the first delivery raised
FirstCredited ==
    IF FirstMerged
    THEN RowOf(shards[UserShard(EventToken(procs[1]))],
               EventToken(procs[1])).verified_user_access_token
    ELSE EventToken(procs[1])

Primaries == {r \in aggregate : r.verified_user_access_token = NULL}

\* C20: in every reachable state, reconcilers for different tokens running
\* together included, at most one row without a forwarding pointer in the
\* aggregate view carries a given card_fingerprint, and at most one a given
\* verified_email.
C20_OnePrimaryPerPayer ==
    \A r1, r2 \in Primaries :
        r1 # r2 =>
            /\ r1.card_fingerprint # NULL => r1.card_fingerprint # r2.card_fingerprint
            /\ r1.verified_email # NULL => r1.verified_email # r2.verified_email

\* a /db/ request whose path names no codec output of the current secret
DbUndecodable(pr) ==
    /\ pr.op = "db"
    /\ pr.pc = "done"
    /\ pr.cred # AGGREGATE_NAME
    /\ decryptToken(pr.cred, secret) = DECODE_ERROR

\* C21: a shard-access request whose public identifier is not a valid codec
\* output under the master secret is answered "not authorized": the decode
\* error does not reach the caller as a fault, and no shard handle is granted.
C21_UndecodableIsUnauthorized ==
    \A p \in Procs :
        DbUndecodable(procs[p])
           => procs[p].result = UNAUTHORIZED /\ procs[p].client = NULL

\* the step in which the wrapper of request p charges the price of the
\* handler's response
AutoCharged(p) ==
    /\ procs[p].pc = "session"
    /\ procs'[p].pc = "done"
    /\ HasPrice(procs'[p].ev)

\* the user of request p has a row in the shard of its store handle
Persisted(p) ==
    /\ procs[p].client # NULL
    /\ Has(shards[procs[p].client], procs[p].user.access_token)

\* table, with amount taken off the balance of the row of t
Decremented(table, t, amount) ==
    (table \ {RowOf(table, t)})
        \cup {[RowOf(table, t) EXCEPT !.balance = @ - amount]}

\* C22: when the handler's response carries a numeric X-Price p > 0 and the
\* resolved user has a persisted row, the wrapper takes exactly p off that
\* row's balance, once, and changes nothing else; unless the handler set
\* X-Balance itself the response reports the resolved balance minus p.  When
\* the charge does not succeed no balance changes and X-Balance reports the
\* resolved balance.
C22_AutomaticCharge ==
    [][\A p \in Procs :
          AutoCharged(p) =>
             LET pr == procs[p]
                 response == procs'[p].ev
                 price == Number(response.xPrice)
             IN IF Persisted(p)
                THEN /\ shards' = [shards EXCEPT ![pr.client] =
                                      Decremented(@, pr.user.access_token, price)]
                     /\ response.xBalance = NULL
                           => procs'[p].result = ToString(pr.user.balance - price)
                ELSE /\ shards' = shards
                     /\ response.xBalance = NULL
                           => procs'[p].result = ToString(pr.user.balance)]_vars

\* a price of 2 was charged to a row that held 1: the row holds -1 and the
\* response reports -1
C22_Witness ==
    \E p \in Procs :
        /\ procs[p].op = "session"
        /\ procs[p].pc = "done"
        /\ procs[p].ev = HandlerResponse("2", NULL)
        /\ procs[p].user.balance = 1
        /\ procs[p].result = "-1"
        /\ procs[p].client # NULL
        /\ Has(shards[procs[p].client], procs[p].user.access_token)
        /\ RowOf(shards[procs[p].client], procs[p].user.access_token).balance = -1

\* C23: for every secret and every token, decryptToken under the secret gives
\* back the token encryptToken sealed under it; the transport encoding gives
\* back every buffer it encoded.
C23_RoundTrip ==
    \A p, q \in Procs :
        /\ (procs[p].op = "encryptToken" /\ procs[q].op = "decryptToken"
               /\ procs[q].cred = procs[p].result)
              => procs[q].result = procs[p].cred
        /\ (procs[p].op = "arrayBufferToBase64Url"
               /\ procs[q].op = "base64UrlToArrayBuffer"
               /\ procs[q].cred = procs[p].result)
              => procs[q].result = "bytes" /\ procs[q].log = procs[p].log

\* a credential that has not the UUID format was sealed and opened again
C23_Witness ==
    \E p, q \in Procs :
        /\ procs[p].op = "encryptToken"
        /\ procs[p].cred \in MalformedTokens
        /\ procs[q].op = "decryptToken"
        /\ procs[q].cred = procs[p].result
        /\ procs[q].result = procs[p].cred

Resolves(p) ==
    /\ procs'[p].op = "session"
    /\ \/ procs'[p].rid # procs[p].rid
       \/ procs[p].pc \in {"sess_redirect", "sess_writeback"}
             /\ procs'[p] # procs[p]

C26_PointerFollowedOnce ==
    [][\A p \in Procs :
          /\ procs'[p].pc = "sess_redirect" => procs'[p].rid # procs[p].rid
          /\ (procs[p].pc = "sess_redirect" /\ procs'[p] # procs[p]
                 /\ faults' = faults
                 /\ Has(shards[procs[p].client], procs[p].accessToken))
                => /\ procs'[p].pc \in {"session", "sess_writeback"}
                   /\ procs'[p].client = procs[p].client
                   /\ [procs'[p].user EXCEPT !.client_reference_id = NULL]
                         = [RowOf(shards[procs[p].client], procs[p].accessToken)
                               EXCEPT !.client_reference_id = NULL]]_vars

\* the session of T2 was led to the row of T1, which forwards to U1
C26_Witness ==
    /\ procs[1].op = "session"
    /\ procs[1].pc = "session"
    /\ procs[1].cred = "T2"
    /\ procs[1].client = UserShard("T1")
    /\ procs[1].user.access_token = "T1"
    /\ procs[1].user.verified_user_access_token = "U1"
    /\ procs[1].cookie = "T1"

\* the rows of a table, client_reference_id left aside
Blank(table) == {[r EXCEPT !.client_reference_id = NULL] : r \in table}

\* C28: session resolution inserts no row, deletes none and changes no column
\* but client_reference_id, in the user shards and in the aggregate; the one
\* row it rewrites is the effective user's.
C28_ResolutionWritesOnlyPublicId ==
    [][/\ \A n \in ShardNames : Blank(shards'[n]) = Blank(shards[n])
       /\ Blank(aggregate') = Blank(aggregate)
       /\ \A n \in ShardNames : \A r \in shards'[n] \ shards[n] :
             \E p \in Procs :
                /\ procs[p].pc = "sess_writeback"
                /\ n = procs[p].client
                /\ r.access_token = procs[p].accessToken
                /\ r.client_reference_id = encryptToken(r.access_token, secret)]_vars

\* the write-back reached the aggregate: the row of T1 has its public
\* identifier there
C28_Witness ==
    /\ procs[1].op = "session"
    /\ procs[1].rid = 1
    /\ procs[1].pc = "session"
    /\ mirror = <<>>
    /\ Has(aggregate, "T1")
    /\ RowOf(aggregate, "T1").client_reference_id = encryptToken("T1", secret)
    /\ RowOf(procs[1].snap.aggregate, "T1").client_reference_id = NULL

\* C27: when the token of a paid event has no row, the aggregate view is
\* searched by verified_email first and by card_fingerprint second, and the
\* first match wins: with a row matching the verified email, the forwarding
\* pointer and the credit go to a row matched by the email, also when the
\* fingerprint matches another row, whose balance stays; with none, to a row
\* matched by the fingerprint; the row of a new payer is written only when
\* neither search matches.
C27_EmailMatchComesFirst ==
    \A p \in Procs :
        LET pr == procs[p]
            T == EventToken(pr)
            row == RowOf(shards[UserShard(T)], T)
            A == row.verified_user_access_token
        IN (Reconciled(pr) /\ Processed(pr) /\ ~Has(pr.snap.aggregate, T))
           => /\ Has(shards[UserShard(T)], T)
              /\ EmailMatches(pr) # {} => A \in EmailMatches(pr)
              /\ (EmailMatches(pr) = {} /\ FingerprintMatches(pr) # {})
                    => A \in FingerprintMatches(pr)
              /\ A = NULL <=> EmailMatches(pr) \cup FingerprintMatches(pr) = {}
              /\ A = NULL => row.balance = pr.ev.amount_total
              /\ A # NULL =>
                    /\ row.balance = 0
                    /\ \A X \in EmailMatches(pr) \cup FingerprintMatches(pr) :
                          BalanceIn(shards, X)
                             = BalanceIn(pr.snap.shards, X)
                                  + (IF X = A THEN pr.ev.amount_total ELSE 0)

\* the verified email matched one row and the fingerprint another: the
\* pointer goes to the email's
C27_Witness ==
    \E p \in Procs :
        /\ Reconciled(procs[p])
        /\ Processed(procs[p])
        /\ ~Has(procs[p].snap.aggregate, EventToken(procs[p]))
        /\ EmailMatches(procs[p]) # {}
        /\ FingerprintMatches(procs[p]) # {}
        /\ EmailMatches(procs[p]) \cap FingerprintMatches(procs[p]) = {}
        /\ RowOf(shards[UserShard(EventToken(procs[p]))],
                 EventToken(procs[p])).verified_user_access_token
              \in EmailMatches(procs[p])

\* C29: under a fixed secret, after any sequence of reconcile, rotate, resolve
\* and charge operations, every row in the user shard named by the public
\* identifier P has the access_token P decodes to: no user shard holds a row
\* of another identity's token.
C29_ShardKey ==
    \A P \in PublicIds : \A r \in shards[ShardOf(P)] :
        r.access_token = decryptToken(P, secret)

\* a rotated row and a stub sit in their own shards
C29_Witness ==
    /\ \E t \in AllTokens \ UserTokens : Has(shards[UserShard(t)], t)
    /\ \E t \in UserTokens :
          /\ Has(shards[UserShard(t)], t)
          /\ RowOf(shards[UserShard(t)], t).verified_user_access_token # NULL

CORRUPT == "500 Data might be corrupt"

\* C30: when the lookup by access_token found no row and a search by verified
\* email or fingerprint then returns a row of the event's own token, the event
\* is answered with the failure "Data might be corrupt" and the request
\* writes nothing; a stub is only ever prepared for another token, and no row
\* forwards to its own access_token.
C30_OwnTokenIsCorruption ==
    /\ [](\A r \in AllRows : r.verified_user_access_token # r.access_token)
    /\ [][\A p \in Procs :
             (procs[p].pc \in {"wh_email", "wh_fingerprint"}
                 /\ procs'[p] # procs[p])
                => /\ procs'[p].pc = "wh_insert_stub"
                         => procs'[p].alt # procs'[p].token
                   /\ procs'[p].pc = "done"
                         => /\ procs'[p].result = CORRUPT
                            /\ Has(aggregate, procs[p].token)
                            /\ shards' = shards
                            /\ mirror' = mirror]_vars

\* another invocation inserted the row of the token between the lookup and
\* the search of this one
C30_Witness ==
    \E p \in Procs :
        /\ procs[p].op = "webhook"
        /\ procs[p].result = CORRUPT
        /\ ~Has(procs[p].snap.aggregate, procs[p].token)
        /\ Has(aggregate, procs[p].token)


(***************************************************************************)
(* C31: rotation of a credential without a persisted row                   *)
(***************************************************************************)
\* a finished rotation request that presented no credential, or a credential
\* that had no row in its shard when the request arrived
RotatedWithoutRow(pr) ==
    /\ pr.op = "rotate"
    /\ pr.pc = "done"
    /\ \/ pr.cred = NULL
       \/ pr.cred \in UserTokens /\ OwnRow(pr, pr.cred) = NoRow

\* C31: a rotation request presented with no credential, or with a credential
\* that has no persisted row, is answered "Not authenticated" and writes
\* nothing: no store call is issued and every shard is as the request found it,
\* so session bootstrap and rotation alone never create a row.
C31_RotationNeedsPersistedRow ==
    \A p \in Procs :
        RotatedWithoutRow(procs[p])
           => /\ procs[p].result = "401 Not authenticated"
              /\ procs[p].log = <<>>
              /\ shards = procs[p].snap.shards


(***************************************************************************)
(* C33: a stub holds nothing but the forwarding pointer                    *)
(***************************************************************************)
\* C33: in every reachable state a user-shard row whose
\* verified_user_access_token is non-null has balance 0 and a null email: no
\* payment event, a later or re-delivered one addressed to the secondary
\* credential included, puts funds on a row that session resolution redirects
\* away from.
C33_StubHoldsOnlyPointer ==
    \A n \in ShardNames : \A r \in shards[n] :
        r.verified_user_access_token # NULL
           => r.balance = 0 /\ r.email = NULL


(***************************************************************************)
(* C32: the aggregate mirror against the user shards                       *)
(***************************************************************************)
\* the aggregate view holds a row with r's access_token and r's balance
Mirrored(r) ==
    \E g \in aggregate :
        g.access_token = r.access_token /\ g.balance = r.balance

\* C32: with no store write failing, once every issued write has been applied
\* on its user shard and on the aggregate mirror (the mirror queue is empty),
\* the aggregate view holds for every user-shard row a row with the same
\* access_token and the same balance, also when the mirror applied the writes
\* of concurrent requests to one identity in another order than the shard.
C32_MirrorConverges ==
    mirror = <<>> => \A n \in ShardNames : \A r \in shards[n] : Mirrored(r)


(***************************************************************************)
(* C34: an acknowledged payment is credited                                *)
(***************************************************************************)
\* the step in which reconciler p answers "Payment processed successfully"
Acknowledges(p) ==
    /\ procs'[p].op = "webhook"
    /\ ~Processed(procs[p])
    /\ Processed(procs'[p])

\* the rows of a table other than the row of t
Others(table, t) == {r \in table : r.access_token # t}

\* this step raised the balance of exactly one user-shard row by amount, or
\* inserted one row with it, and changed no other row
CreditsOneRow(amount) ==
    \E n \in ShardNames : \E t \in AllTokens :
        /\ \A m \in ShardNames \ {n} : shards'[m] = shards[m]
        /\ Others(shards'[n], t) = Others(shards[n], t)
        /\ Has(shards'[n], t)
        /\ RowOf(shards'[n], t).balance =
              (IF Has(shards[n], t) THEN RowOf(shards[n], t).balance ELSE 0) + amount

\* C34: whenever the reconciler answers an event "processed successfully",
\* its write raised the balance of exactly one user-shard row by the event
\* amount (or inserted the row with it), also when a rotation of the credited
\* identity or another reconciliation for the same token runs between the
\* reconciler's aggregate lookup and its write.
C34_AcknowledgedIsCredited ==
    [][\A p \in Procs :
          Acknowledges(p) => CreditsOneRow(procs'[p].ev.amount_total)]_vars


(***************************************************************************)
(* C35: rotation racing a credit or a charge                               *)
(***************************************************************************)
\* the step in which rotation p deletes the old row, still present, and
\* answers with the new cookie
DeletesOldRow(p) ==
    /\ procs[p].op = "rotate"
    /\ procs[p].pc = "rot_delete"
    /\ procs'[p].result = "200 Token rotated successfully"
    /\ Has(shards[procs[p].client], procs[p].user.access_token)

\* C35: if a credit or a successful charge on the identity being rotated
\* executes between the rotation's read of the current row and its copy and
\* delete, the new row's balance after the rotation still equals the old
\* row's balance at the moment it was deleted: no credit is lost and no
\* charged amount is restored.
C35_RotationConservesFunds ==
    [][\A p \in Procs :
          DeletesOldRow(p)
             => /\ Has(shards'[newUserClient(procs[p])], procs[p].token)
                /\ RowOf(shards'[newUserClient(procs[p])], procs[p].token).balance
                     = RowOf(shards[procs[p].client],
                             procs[p].user.access_token).balance]_vars
====
